---------------------------- MODULE Spec2Model ----------------------------
(***************************************************************************)
(* A model of the wallet-monitoring dashboard's server side:               *)
(*                                                                         *)
(*   - the real-time-monitor edge function: the `serve` request handler    *)
(*     and the setInterval callback of startRealTimeMonitoring that polls  *)
(*     Bitquery and writes real_time_transfers;                            *)
(*   - the real_time_transfers table with its unique constraint and its    *)
(*     realtime publication, and the RealTimeMonitor dashboard component   *)
(*     that subscribes to it;                                              *)
(*   - the risk scoring of the analyze-wallet edge function.               *)
(*                                                                         *)
(* Amounts are decimal strings upstream ("99999.99"); the model writes     *)
(* them as <<units, cents>> and a number as its value in cents.  Block     *)
(* times are seconds since the epoch; a timestamp column holds             *)
(* milliseconds.                                                           *)
(***************************************************************************)
EXTENDS Integers, Sequences, FiniteSets, Bags, TLC

VARIABLES
    \* ---- real-time-monitor edge function and its table
    tokenSet,             \* Deno.env BITQUERY_TOKEN is set
    timers,               \* number of armed setInterval timers
    pc,                   \* per running callback: where it is
    todo,                 \* per running callback: the records of its batch not yet handled
    real_time_transfers,  \* the table: a set of rows
    response,             \* the last response `serve` returned
    \* ---- history of the polling, kept for the properties only
    tracking,             \* whether this behaviour keeps the history
    lastBatch,            \* the batch of the latest successful fetch
    streak,               \* consecutive undisturbed ticks over lastBatch (0..2)
    tickLog,              \* outcomes per record since the latest fetch
    upstreamFailed,       \* some tick's upstream query has failed
    \* ---- RealTimeMonitor dashboard component
    isConnected,          \* per dashboard: its isConnected state
    subscribed,           \* per dashboard: its realtime channels are subscribed
    inbox,                \* per dashboard: INSERT events of its channel in flight
    allTransfers,         \* per dashboard: its transfer list
    allWhaleAlerts,       \* per dashboard: its whale-alert list
    joinedAt,             \* history: rows stored when the dashboard last subscribed
    \* ---- analyze-wallet edge function
    now,                  \* Date.now(), in seconds
    transactions,         \* the wallet's history as the explorer returns it
    wallet_transactions,  \* the table: a set of rows, unique on tx_hash
    wallet_risk_ratings,  \* the table: the wallet's row, <<>> before the first upsert
    analysisResponse,     \* the last response of analyze-wallet
    analyses,             \* history: its latest two analyses
    analyzing,            \* the network of the request being handled, "" if none
    calls,                \* per explorer call of that request: its fetchWithRetry
    \* ---- useRealTimeBalance hook and the balance service
    balances,             \* the hook's balances state: per wallet its native amount
    lastUpdate,           \* the hook's lastUpdate state: 0 for null, else which fetch set it
    trackerConnected,     \* the hook's isConnected state
    subscriptionRef,      \* subscriptionRef.current is set
    intervalRef,          \* intervalRef.current: a timer, 0 for null
    armed,                \* the refresh timers armed and not cleared
    listeners,            \* the listeners registered with the balance service
    tracking_pc,          \* per startTracking call: where it is
    inFlight,             \* the fetchBalances calls awaiting the service
    fetched,              \* number of fetchBalances calls so far
    lastFetch,            \* history: the fetch that completed last and how
    cancelled,            \* history: startTracking calls that were awaiting at a stopTracking
    lastCall,             \* history: the latest of startTracking / stopTracking
    \* ---- StablecoinTransfersTab
    transfers,            \* the displayed list
    isLoadingTransfers,   \* a round is running
    errorToast,           \* the round's outer catch has shown its toast
    results,              \* per network: the contribution of its fetch in this round
    answered,             \* history: per network how its fetch came out in this round
    \* ---- api-stablecoin-transfers gateway function
    clock,                \* Date.now() and the database's now(), in milliseconds
    api_usage,            \* the table: a bag of rows
    handler,              \* per running handler: where it is and its validation
    lastReply,            \* the last response the gateway returned
    invoked,              \* number of invocations of fetch-stablecoin-transfers
    received,             \* number of requests received
    uncounted,            \* history: some usage count query has failed
    \* ---- the request handlers of analyze-wallet and wallet-history
    edgeRequest,          \* the request handled last: its function and body
    edgePc,               \* where its handler is: "idle" once it has responded
    edgeResponse,         \* the response and the code path that returned it
    explorerRequests,     \* requests the handler has sent to an explorer or ledger API
    lastAnswer,           \* history: how the API answered the handler's request
    \* ---- useWalletStorage hook, localStorage and the tracked_wallets table
    wallets,              \* the hook's wallets state, newest first
    localStorage,         \* the item 'tracked-wallets': <<>> for none, else <<list>>
    tracked_wallets,      \* the table: its rows in the order of their inserts
    pendingOps,           \* the hook's requests to the table still in flight
    nextId,               \* the ids generateUUID has given out so far, plus one
    \* ---- fetch-stablecoin-transfers and the stablecoin_transfers table
    chain,                \* per network: the stablecoin transfers made so far
    stablecoin_transfers, \* the table: its rows in the order of their inserts
    fetchReply            \* the last response of fetch-stablecoin-transfers

pollerVars == <<tokenSet, timers, pc, todo, real_time_transfers>>
historyVars == <<tracking, lastBatch, streak, tickLog, upstreamFailed>>
dashVars == <<isConnected, subscribed, inbox, allTransfers, allWhaleAlerts, joinedAt>>
riskVars == <<now, transactions, wallet_transactions, wallet_risk_ratings,
              analysisResponse, analyses>>
fetchVars == <<analyzing, calls>>
hookVars == <<balances, lastUpdate, trackerConnected, subscriptionRef, intervalRef, armed,
              listeners, tracking_pc, inFlight, fetched, lastFetch, cancelled, lastCall>>
tabVars == <<transfers, isLoadingTransfers, errorToast, results, answered>>
gatewayVars == <<clock, api_usage, handler, lastReply, invoked, received, uncounted>>
edgeVars == <<edgeRequest, edgePc, edgeResponse, explorerRequests, lastAnswer>>
walletVars == <<wallets, localStorage, tracked_wallets, pendingOps, nextId>>
stableVars == <<chain, stablecoin_transfers, fetchReply>>
moreVars == <<edgeVars, walletVars, stableVars>>
earlierVars == <<pollerVars, response, historyVars, dashVars, riskVars,
                 analyzing, calls, hookVars, tabVars, gatewayVars>>
clientVars == <<hookVars, tabVars, gatewayVars, moreVars>>
laterVars == <<fetchVars, clientVars>>
vars == <<pollerVars, response, historyVars, dashVars, riskVars, laterVars>>

-----------------------------------------------------------------------------
(* Bounds of the model *)

\* Longest Transfers list one upstream response carries (the query asks for 20).
MaxBatch == 2
\* Cap on the number of armed timers the model counts.
MaxTimers == 2

\* The callbacks of the polling timers that may be running at the same time.
Ticks == {1, 2}
\* The dashboards that may be open at the same time.
Dashboards == {1, 2}

-----------------------------------------------------------------------------
(* Upstream records: the entries of result.data.EVM.Transfers *)

\* One entry of the Transfers list.  shape says which objects the entry has:
\* "ok" all of them, "noTransfer" no Transfer object, "noCurrency" a Transfer
\* without its Currency object.
Raw(h, t, amt, shape) ==
    [Hash |-> h, Time |-> t, Number |-> t, Sender |-> "0xa", Receiver |-> "0xb",
     Amount |-> amt, Symbol |-> "USDC", shape |-> shape]

\* Two transfers of one transaction between the same sender and receiver that
\* differ in amount only, one just under and one at the whale threshold.
TransferX == Raw("h1", 1, <<99999, 99>>, "ok")
TransferY == Raw("h1", 1, <<100000, 0>>, "ok")
\* A transfer of another transaction.
TransferZ == Raw("h2", 2, <<100000, 0>>, "ok")
\* Malformed entries.
NoTransfer == Raw("h3", 3, <<0, 0>>, "noTransfer")
NoCurrency == Raw("h2", 2, <<100000, 0>>, "noCurrency")

Records == {TransferX, TransferY, TransferZ, NoTransfer, NoCurrency}

SeqsUpTo(S, n) == UNION {[1..k -> S] : k \in 0..n}
\* The Transfers lists upstream may return.
Batches == SeqsUpTo(Records, MaxBatch)
\* Those with well-formed entries only.
CleanBatches == SeqsUpTo({TransferX, TransferY, TransferZ}, MaxBatch)

\* No batch: lastBatch is <<>> or <<b>> for a batch b.
NoBatch == <<>>
\* No response yet.
NoResponse == [status |-> 0, body |-> <<>>]


-----------------------------------------------------------------------------
(* The callback's computations on one record *)

\* A decimal <<units, cents>> as a number of cents.
Cents(units, cents) == units * 100 + cents

\* parseFloat(transfer.Transfer.Amount): the number the decimal string denotes.
parseFloat(s) == Cents(s[1], s[2])

\* const usdValue = amount: 1:1 for stablecoins.
usdValue(amount) == amount

\* The whale threshold, in currency units.
WhaleThreshold == 100000

\* A variant with an exclusive threshold.
isWhaleStrict(usd) == usd > Cents(WhaleThreshold, 0)
\* const isWhale = usdValue >= 100000.
isWhale(usd) == usd >= Cents(WhaleThreshold, 0)

\* new Date(transfer.Block.Time).toISOString(): the instant, in milliseconds.
toISOString(t) == t * 1000

\* The object handed to insert (no id: the database generates it).
transferData(r) ==
    [hash |-> r.Hash,
     timestamp |-> toISOString(r.Time),
     block_number |-> r.Number,
     from_address |-> r.Sender,
     to_address |-> r.Receiver,
     amount |-> parseFloat(r.Amount),
     currency |-> r.Symbol,
     usd_value |-> usdValue(parseFloat(r.Amount)),
     is_whale |-> isWhale(usdValue(parseFloat(r.Amount))),
     network |-> "ethereum"]

\* The rows the duplicate check selects: .eq on hash, from_address, to_address
\* and amount.
Matching(table, r) ==
    {row \in table : /\ row.hash = r.Hash
                     /\ row.from_address = r.Sender
                     /\ row.to_address = r.Receiver
                     /\ row.amount = parseFloat(r.Amount)}

\* .single() yields data only when exactly one row is selected.
existingTransfer(table, r) == Cardinality(Matching(table, r)) = 1

-----------------------------------------------------------------------------
(* The real_time_transfers table *)

\* A variant of the constraint over the columns the duplicate check selects on.
UniqueKeyOnAmount(row) == <<row.hash, row.from_address, row.to_address, row.amount>>

\* The columns of the constraint unique_realtime_transfer.
UniqueKey(row) == <<row.hash, row.from_address, row.to_address, row.timestamp>>

\* The row the database stores for `data`: the id is generated, fresh.
NewRow(table, data) ==
    [id |-> Cardinality(table) + 1,
     hash |-> data.hash, timestamp |-> data.timestamp,
     block_number |-> data.block_number,
     from_address |-> data.from_address, to_address |-> data.to_address,
     amount |-> data.amount, currency |-> data.currency,
     usd_value |-> data.usd_value, is_whale |-> data.is_whale,
     network |-> data.network]

\* A variant of the table without the unique constraint.
InsertUnguarded(table, data) == table \cup {NewRow(table, data)}

\* A variant that overwrites the row of the same key instead of rejecting.
InsertAsUpsert(table, data) ==
    {row \in table : UniqueKey(row) # UniqueKey(data)} \cup {NewRow(table, data)}

\* INSERT under the unique constraint: the table afterwards.  A row whose key
\* is already stored is rejected and the table stays as it is.
Insert(table, data) ==
    IF \E row \in table : UniqueKey(row) = UniqueKey(data)
    THEN table
    ELSE table \cup {NewRow(table, data)}

-----------------------------------------------------------------------------
(* The realtime publication and the dashboard's channels *)

\* Object.keys(SUPPORTED_NETWORKS): one channel per key, filtered on network.
SUPPORTED_NETWORKS == {"ethereum", "polygon", "avalanche", "arbitrum", "xrp"}

\* The INSERT events of `rows` a subscribed dashboard receives, appended to
\* those in flight: one per channel whose filter network=eq.<key> the row passes.
Publish(box, rows) ==
    LET passing == {row \in rows : row.network \in SUPPORTED_NETWORKS}
    IN IF passing = {} THEN box ELSE Append(box, CHOOSE row \in passing : TRUE)

-----------------------------------------------------------------------------
(* The setInterval callback of startRealTimeMonitoring *)

\* Where the loop stands once it moves on to the records `rest`: the head of
\* the loop body reads transfer.Transfer.Amount, which throws on an entry with
\* no Transfer object; the throw leaves the loop for the callback's catch.
pcAfter(rest) ==
    IF rest = <<>> THEN "done"
    ELSE IF Head(rest).shape = "noTransfer" THEN "done"
    ELSE "select"

OthersActive(p) == \E q \in Ticks \ {p} : pc[q] # "idle"

\* History: an outcome is noted while one callback runs alone.
Note(outcome) ==
    tickLog' = IF lastBatch = NoBatch THEN tickLog ELSE Append(tickLog, outcome)

\* History: a store call failed, which ends the run of undisturbed ticks.
NoteStore(storeOk) ==
    streak' = IF storeOk THEN streak ELSE 0

\* History: an upstream query has failed.
NoteUpstreamFailure ==
    /\ upstreamFailed' = tracking
    /\ lastBatch' = NoBatch
    /\ streak' = 0
    /\ tickLog' = <<>>
    /\ UNCHANGED tracking

\* History: callback p has fetched the list b.
NoteFetch(p, b) ==
    /\ IF OthersActive(p) \/ ~tracking
       THEN /\ lastBatch' = NoBatch
            /\ streak' = 0
       ELSE /\ lastBatch' = <<b>>
            /\ streak' = IF streak >= 1 /\ lastBatch = <<b>> THEN 2 ELSE 1
    /\ tickLog' = <<>>
    /\ UNCHANGED <<tracking, upstreamFailed>>

\* A variant in which a failed query clears the interval.
FetchFailsAndStops(p) ==
    /\ timers > 0
    /\ pc[p] = "idle"
    /\ timers' = 0
    /\ NoteUpstreamFailure
    /\ UNCHANGED <<riskVars, laterVars, tokenSet, pc, todo, real_time_transfers, response, dashVars>>

\* A timer fires and the upstream query fails: fetch rejects, the status is
\* not 2xx, or the response holds no Transfers list.  The callback ends; the
\* timer stays armed.
FetchFails(p) ==
    /\ timers > 0
    /\ pc[p] = "idle"
    /\ NoteUpstreamFailure
    /\ UNCHANGED <<riskVars, laterVars, pollerVars, response, dashVars>>

\* A timer fires and the upstream query returns the Transfers list b.
FetchOk(p, b) ==
    /\ timers > 0
    /\ pc[p] = "idle"
    /\ pc' = [pc EXCEPT ![p] = pcAfter(b)]
    /\ todo' = [todo EXCEPT ![p] = b]
    /\ NoteFetch(p, b)
    /\ UNCHANGED <<riskVars, laterVars, tokenSet, timers, real_time_transfers, response, dashVars>>

\* The duplicate check's answer arrives.  storeOk: the store answered (else
\* data is null, as when no row or several rows match).
\*   - a stored match: log and continue with the next record;
\*   - no match: build transferData, which throws on an entry with no Currency
\*     object, and issue the insert.
DuplicateCheck(p, storeOk) ==
    /\ pc[p] = "select"
    /\ LET r == Head(todo[p])
           rest == Tail(todo[p])
       IN IF storeOk /\ existingTransfer(real_time_transfers, r)
          THEN /\ pc' = [pc EXCEPT ![p] = pcAfter(rest)]
               /\ todo' = [todo EXCEPT ![p] = rest]
               /\ Note("skip")
               /\ NoteStore(TRUE)
          ELSE /\ pc' = [pc EXCEPT ![p] = IF r.shape = "noCurrency"
                                           THEN "done" ELSE "insert"]
               /\ todo' = todo
               /\ tickLog' = tickLog
               /\ NoteStore(storeOk)
    /\ UNCHANGED <<riskVars, laterVars, tokenSet, timers, real_time_transfers, response,
                   tracking, lastBatch, upstreamFailed, dashVars>>

\* A variant in which an insert error ends the callback.
AfterInsertThrows(p, error) ==
    IF error
    THEN /\ pc' = [pc EXCEPT ![p] = "done"]
         /\ todo' = todo
    ELSE /\ pc' = [pc EXCEPT ![p] = pcAfter(Tail(todo[p]))]
         /\ todo' = [todo EXCEPT ![p] = Tail(todo[p])]

\* What the loop does once an insert has returned: with an error or without,
\* it logs and goes on to the next record.
AfterInsert(p, error) ==
    /\ pc' = [pc EXCEPT ![p] = pcAfter(Tail(todo[p]))]
    /\ todo' = [todo EXCEPT ![p] = Tail(todo[p])]

\* The insert's answer arrives.  storeOk: the store executed the statement
\* (else it returns an error and stores nothing).
StoreTransfer(p, storeOk) ==
    /\ pc[p] = "insert"
    /\ LET r == Head(todo[p])
           after == IF storeOk
                    THEN Insert(real_time_transfers, transferData(r))
                    ELSE real_time_transfers
           inserted == after \ real_time_transfers
       IN /\ real_time_transfers' = after
          /\ inbox' = [d \in Dashboards |->
                          IF subscribed[d] THEN Publish(inbox[d], inserted)
                          ELSE inbox[d]]
          /\ Note(IF inserted # {} THEN "ins" ELSE IF storeOk THEN "err" ELSE "fail")
          /\ NoteStore(storeOk)
          /\ AfterInsert(p, inserted = {})
    /\ UNCHANGED <<riskVars, laterVars, tokenSet, timers, response, tracking, lastBatch, upstreamFailed,
                   isConnected, subscribed, allTransfers, allWhaleAlerts, joinedAt>>

\* The callback returns.
TickEnd(p) ==
    /\ pc[p] = "done"
    /\ pc' = [pc EXCEPT ![p] = "idle"]
    /\ todo' = [todo EXCEPT ![p] = <<>>]
    /\ tickLog' = <<>>
    /\ UNCHANGED <<riskVars, laterVars, tokenSet, timers, real_time_transfers, response,
                   tracking, lastBatch, streak, upstreamFailed, dashVars>>

\* One step of callback p, upstream answering with a list of B.
Tick(p, B) ==
    \/ FetchFails(p)
    \/ \E b \in B : FetchOk(p, b)
    \/ \E storeOk \in BOOLEAN : DuplicateCheck(p, storeOk)
    \/ \E storeOk \in BOOLEAN : StoreTransfer(p, storeOk)
    \/ TickEnd(p)

-----------------------------------------------------------------------------
(* The request handler `serve` of real-time-monitor *)

Min(a, b) == IF a < b THEN a ELSE b

\* .limit() of the two queries.
RecentLimit == 100
WhaleLimit == 50

\* The answers a query .order('timestamp', {ascending: false}).limit(n) over
\* `rows` may give: the rows by non-increasing timestamp, ties in any order,
\* cut to n.
OrderedDesc(rows, n) ==
    {SubSeq(s, 1, Min(Len(s), n)) :
        s \in {t \in [1..Cardinality(rows) -> rows] :
                 /\ \A i, j \in DOMAIN t : i # j => t[i] # t[j]
                 /\ \A i, j \in DOMAIN t : i < j => t[i].timestamp >= t[j].timestamp}}

\* start_monitoring: startRealTimeMonitoring throws when BITQUERY_TOKEN is
\* not set (answered 500), else arms one more interval timer.
ServeStartMonitoring ==
    /\ timers < MaxTimers
    /\ IF tokenSet
       THEN /\ timers' = timers + 1
            /\ response' = [status |-> 200, body |-> <<"started">>]
       ELSE /\ timers' = timers
            /\ response' = [status |-> 500, body |-> <<"error">>]
    /\ UNCHANGED <<riskVars, laterVars, tokenSet, pc, todo, real_time_transfers, historyVars, dashVars>>

ServeGetRecentTransfers ==
    /\ \E s \in OrderedDesc(real_time_transfers, RecentLimit) :
          response' = [status |-> 200, body |-> s]
    /\ UNCHANGED <<riskVars, laterVars, pollerVars, historyVars, dashVars>>

ServeGetWhaleAlerts ==
    /\ \E s \in OrderedDesc({row \in real_time_transfers : row.is_whale}, WhaleLimit) :
          response' = [status |-> 200, body |-> s]
    /\ UNCHANGED <<riskVars, laterVars, pollerVars, historyVars, dashVars>>

\* Any other action.
ServeInvalidAction ==
    /\ response' = [status |-> 400, body |-> <<"Invalid action">>]
    /\ UNCHANGED <<riskVars, laterVars, pollerVars, historyVars, dashVars>>

-----------------------------------------------------------------------------
(* The RealTimeMonitor component *)

\* .slice(0, n) of the two lists.
MaxTransfersShown == 200
MaxWhaleAlertsShown == 100

Prepend(x, list, n) == SubSeq(<<x>> \o list, 1, Min(Len(list) + 1, n))

\* startMonitoring: one start_monitoring request per key of
\* SUPPORTED_NETWORKS, k of them answered without error; each of those armed
\* a timer.  With one success or more the component sets isConnected.  (The
\* fetchAllNetworksData it then calls and schedules is the closure of the
\* render in which isConnected was false, and returns at once.)
startMonitoring(d, k) ==
    /\ ~isConnected[d]
    /\ k > 0 => tokenSet
    /\ timers' = Min(timers + k, MaxTimers)
    /\ isConnected' = [isConnected EXCEPT ![d] = k > 0]
    /\ UNCHANGED <<riskVars, laterVars, tokenSet, pc, todo, real_time_transfers, response, historyVars,
                   subscribed, inbox, allTransfers, allWhaleAlerts, joinedAt>>

\* The subscription effect runs: isConnected, so the channels are subscribed.
Subscribe(d) ==
    /\ isConnected[d]
    /\ ~subscribed[d]
    /\ subscribed' = [subscribed EXCEPT ![d] = TRUE]
    /\ joinedAt' = [joinedAt EXCEPT ![d] = Cardinality(real_time_transfers)]
    /\ UNCHANGED <<riskVars, laterVars, pollerVars, response, historyVars,
                   isConnected, inbox, allTransfers, allWhaleAlerts>>

\* The effect's cleanup on a change of notificationsEnabled: the channels are
\* removed (events in flight are dropped); the effect then subscribes anew.
Resubscribe(d) ==
    /\ subscribed[d]
    /\ subscribed' = [subscribed EXCEPT ![d] = FALSE]
    /\ inbox' = [inbox EXCEPT ![d] = <<>>]
    /\ joinedAt' = [joinedAt EXCEPT ![d] = 0]
    /\ UNCHANGED <<riskVars, laterVars, pollerVars, response, historyVars,
                   isConnected, allTransfers, allWhaleAlerts>>

\* stopMonitoring: clears both lists and isConnected; the effect's cleanup
\* removes the channels.  The server's timers are not touched.
stopMonitoring(d) ==
    /\ isConnected[d]
    /\ isConnected' = [isConnected EXCEPT ![d] = FALSE]
    /\ subscribed' = [subscribed EXCEPT ![d] = FALSE]
    /\ inbox' = [inbox EXCEPT ![d] = <<>>]
    /\ allTransfers' = [allTransfers EXCEPT ![d] = <<>>]
    /\ allWhaleAlerts' = [allWhaleAlerts EXCEPT ![d] = <<>>]
    /\ joinedAt' = [joinedAt EXCEPT ![d] = 0]
    /\ UNCHANGED <<riskVars, laterVars, pollerVars, response, historyVars>>

\* A variant that alerts on every transfer.
WhaleAlertsWithAll(list, newTransfer) ==
    Prepend(newTransfer, list, MaxWhaleAlertsShown)

\* The whale-alert list after the handler has seen newTransfer.
WhaleAlertsWith(list, newTransfer) ==
    IF newTransfer.is_whale
    THEN Prepend(newTransfer, list, MaxWhaleAlertsShown)
    ELSE list

\* The postgres_changes handler runs on the first event in flight.
OnInsertEvent(d) ==
    /\ subscribed[d]
    /\ inbox[d] # <<>>
    /\ LET newTransfer == Head(inbox[d])
       IN /\ allTransfers' = [allTransfers EXCEPT ![d] =
                                 Prepend(newTransfer, @, MaxTransfersShown)]
          /\ allWhaleAlerts' = [allWhaleAlerts EXCEPT ![d] =
                                   WhaleAlertsWith(@, newTransfer)]
    /\ inbox' = [inbox EXCEPT ![d] = Tail(@)]
    /\ UNCHANGED <<riskVars, laterVars, pollerVars, response, historyVars, isConnected, subscribed, joinedAt>>

Dashboard(d) ==
    \/ \E k \in 0..Cardinality(SUPPORTED_NETWORKS) : startMonitoring(d, k)
    \/ Subscribe(d)
    \/ Resubscribe(d)
    \/ stopMonitoring(d)
    \/ OnInsertEvent(d)

-----------------------------------------------------------------------------
(* analyze-wallet: risk scoring *)

\* Times are in seconds: an explorer timeStamp is, and Date.now() is read to
\* the second, which leaves Math.floor of the age in days as it is.
Day == 60 * 60 * 24
HalfDay == 60 * 60 * 12
FirstNow == 20000 * Day

MaxTxs == 50
MaxFailed == 6
MaxDays == 1

\* The networks analyze-wallet has an explorer for.
ANALYZE_NETWORKS == {"ethereum", "polygon", "avalanche", "arbitrum"}

\* A txlist answer of the explorer, newest first: n transactions, the first
\* k of them failed, the last one `age` seconds old at FirstNow.
TxList(n, k, age) ==
    [i \in 1..n |-> [hash |-> i,
                     timeStamp |-> IF i = n THEN FirstNow - age ELSE FirstNow,
                     isError |-> IF i <= k THEN "1" ELSE "0"]]

Lengths == {0, 1, 9, 10, 20, 49, MaxTxs}
AgesAtStart == {0 - Day, 0, 29 * Day + HalfDay, 30 * Day, 89 * Day + HalfDay,
                90 * Day, 364 * Day + HalfDay, 365 * Day}

TxLists ==
    {TxList(n, k, age) : n \in Lengths \ {0}, k \in 0..MaxFailed, age \in AgesAtStart}
        \cup {<<>>}

totalTxs(txs) == Len(txs)

failedTxs(txs) == Cardinality({i \in DOMAIN txs : txs[i].isError = "1"})

\* failedRatio > 1/tenth, for failedRatio = failed / total, or 0 of no
\* transactions: the quotient of two integers below 2^53 exceeds the double
\* 0.1 (0.05) exactly when the fraction exceeds 1/10 (1/20).
failedRatioAbove(failed, total, tenth) == total > 0 /\ failed * tenth > total

\* A variant that reads the first transaction of the list.
walletAgeDaysFirst(txs, at) ==
    IF Len(txs) > 0 THEN (at - txs[1].timeStamp) \div Day ELSE 0

walletAgeDays(txs, at) ==
    IF Len(txs) > 0 THEN (at - txs[Len(txs)].timeStamp) \div Day ELSE 0

\* A variant with inclusive age and volume thresholds.
riskScoreInclusive(ageDays, total, failed) ==
    LET ageFactor == IF ageDays <= 30 THEN 3
                     ELSE IF ageDays <= 90 THEN 2
                     ELSE IF ageDays <= 365 THEN 1 ELSE 0
        volumeFactor == IF total <= 10 THEN 2 ELSE IF total <= 50 THEN 1 ELSE 0
        failedFactor == IF failedRatioAbove(failed, total, 10) THEN 2
                        ELSE IF failedRatioAbove(failed, total, 20) THEN 1 ELSE 0
    IN  Min(1 + ageFactor + volumeFactor + failedFactor, 10)

riskScore(ageDays, total, failed) ==
    LET ageFactor == IF ageDays < 30 THEN 3
                     ELSE IF ageDays < 90 THEN 2
                     ELSE IF ageDays < 365 THEN 1 ELSE 0
        volumeFactor == IF total < 10 THEN 2 ELSE IF total < 50 THEN 1 ELSE 0
        failedFactor == IF failedRatioAbove(failed, total, 10) THEN 2
                        ELSE IF failedRatioAbove(failed, total, 20) THEN 1 ELSE 0
    IN  Min(1 + ageFactor + volumeFactor + failedFactor, 10)

\* A partition with 6 on the HIGH side.
riskLevelLoose(score) ==
    IF score <= 3 THEN "LOW" ELSE IF score < 6 THEN "MEDIUM" ELSE "HIGH"

riskLevel(score) ==
    IF score <= 3 THEN "LOW" ELSE IF score <= 6 THEN "MEDIUM" ELSE "HIGH"

\* The riskAnalysis object of the response.
riskAnalysis(txs, at) ==
    LET score == riskScore(walletAgeDays(txs, at), totalTxs(txs), failedTxs(txs))
    IN  [totalTransactions |-> totalTxs(txs),
         failedTransactions |-> failedTxs(txs),
         walletAgeDays |-> walletAgeDays(txs, at),
         riskScore |-> score,
         riskLevel |-> riskLevel(score)]

\* handleXRPAnalysis: the account's transactions as the XRP API lists them,
\* a date per transaction and meta.TransactionResult.
XRPTransactions(txs) ==
    [i \in DOMAIN txs |->
        [hash |-> txs[i].hash,
         date |-> txs[i].timeStamp,
         meta |-> [TransactionResult |->
                      IF txs[i].isError = "1" THEN "tecUNFUNDED_PAYMENT" ELSE "tesSUCCESS"]]]

xrpRiskAnalysis(xrpTxs, at) ==
    LET total == Len(xrpTxs)
        failed == Cardinality({i \in DOMAIN xrpTxs :
                                  xrpTxs[i].meta.TransactionResult # "tesSUCCESS"})
        ageDays == IF total > 0 THEN (at - xrpTxs[total].date) \div Day ELSE 0
        ageFactor == IF ageDays < 30 THEN 3
                     ELSE IF ageDays < 90 THEN 2
                     ELSE IF ageDays < 365 THEN 1 ELSE 0
        volumeFactor == IF total < 10 THEN 2 ELSE IF total < 50 THEN 1 ELSE 0
        failedFactor == IF total > 0 /\ failed * 10 > total THEN 2
                        ELSE IF total > 0 /\ failed * 20 > total THEN 1 ELSE 0
        score == Min(1 + ageFactor + volumeFactor + failedFactor, 10)
    IN  [totalTransactions |-> total,
         failedTransactions |-> failed,
         walletAgeDays |-> ageDays,
         riskScore |-> score,
         riskLevel |-> IF score <= 3 THEN "LOW"
                       ELSE IF score <= 6 THEN "MEDIUM" ELSE "HIGH"]

NoAnalysis == [status |-> 0, riskAnalysis |-> <<>>]

\* The latest two analyses: the list scored, the time, the score and level.
Remember(list, analysis) ==
    IF Len(list) = 2 THEN <<list[2], analysis>> ELSE Append(list, analysis)

\* The rows analyze-wallet upserts into wallet_transactions (onConflict
\* tx_hash): a stored row of the same hash is replaced.
UpsertTransactions(table, txs) ==
    {row \in table : \A i \in DOMAIN txs : txs[i].hash # row.tx_hash}
        \cup {[tx_hash |-> txs[i].hash,
               timestamp |-> txs[i].timeStamp,
               is_error |-> txs[i].isError = "1"] : i \in DOMAIN txs}

\* What analyze-wallet does with its result: it upserts the transactions and
\* the rating (an upsert error is logged and the response is the same) and
\* returns the analysis.
StoreAndRespond(result, txStored, riskStored) ==
    /\ wallet_transactions' =
          IF txStored THEN UpsertTransactions(wallet_transactions, transactions)
          ELSE wallet_transactions
    /\ wallet_risk_ratings' = IF riskStored THEN <<result>> ELSE wallet_risk_ratings
    /\ analysisResponse' = [status |-> 200, riskAnalysis |-> <<result>>]
    /\ analyses' = Remember(analyses, [transactions |-> transactions,
                                       at |-> now,
                                       riskScore |-> result.riskScore,
                                       riskLevel |-> result.riskLevel])
    /\ UNCHANGED <<now, transactions>>
    /\ UNCHANGED <<pollerVars, response, historyVars, dashVars, clientVars>>

\* A scoring that keeps count: each analysis scores one above the last.
AnalyzeWalletWithMemory(network, txStored, riskStored) ==
    /\ network \in ANALYZE_NETWORKS
    /\ LET result == riskAnalysis(transactions, now)
           score == Min(result.riskScore + Len(analyses), 10)
       IN  StoreAndRespond([result EXCEPT !.riskScore = score,
                                          !.riskLevel = riskLevel(score)],
                           txStored, riskStored)
    /\ UNCHANGED fetchVars

\* analyze-wallet answers a request for a network it has an explorer for, the
\* explorer having answered with the wallet's list: it scores the list at the
\* present time.
AnalyzeWallet(network, txStored, riskStored) ==
    /\ network \in ANALYZE_NETWORKS
    /\ StoreAndRespond(riskAnalysis(transactions, now), txStored, riskStored)
    /\ UNCHANGED fetchVars

\* analyze-wallet throws -- no explorer for the network (xrp among them, which
\* the dashboard offers), a key missing from the environment, or the explorer
\* failing after the retries -- and answers 500; nothing is stored.
AnalyzeWalletFails ==
    /\ analysisResponse' = [status |-> 500, riskAnalysis |-> <<>>]
    /\ UNCHANGED <<now, transactions, wallet_transactions, wallet_risk_ratings, analyses>>
    /\ UNCHANGED <<pollerVars, response, historyVars, dashVars, laterVars>>

\* A day passes.
ClockAdvances ==
    /\ now < FirstNow + MaxDays * Day
    /\ now' = now + Day
    /\ UNCHANGED <<transactions, wallet_transactions, wallet_risk_ratings,
                   analysisResponse, analyses>>
    /\ UNCHANGED <<pollerVars, response, historyVars, dashVars, laterVars>>

-----------------------------------------------------------------------------
(* analyze-wallet: the explorer calls *)

maxRetries == 3

Calls == {"txlist", "balance"}

\* What one request to the explorer can come to: fetch rejects, the status is
\* not 2xx, the body says status "0" with "No transactions found", the body
\* says another status than "1" with a rate-limit message or with another
\* message, the body says status "1".
Answers == {"fetchThrows", "httpError", "noTransactions", "rateLimit", "apiError", "ok"}

NoCall == [state |-> "idle", requests |-> 0, last |-> "", data |-> <<>>]

FirstRequest == [state |-> "waiting", requests |-> 1, last |-> "", data |-> <<>>]

\* The loop of fetchWithRetry goes to its next iteration: another request
\* while i < maxRetries, else the function ends without a return value.
NextIteration(call, answer) ==
    IF call.requests < maxRetries
    THEN [call EXCEPT !.requests = @ + 1, !.last = answer]
    ELSE [call EXCEPT !.state = "returnedNothing", !.last = answer]

\* The catch block of fetchWithRetry: the last iteration rethrows.
Caught(call, answer) ==
    IF call.requests - 1 = maxRetries - 1
    THEN [call EXCEPT !.state = "threw", !.last = answer]
    ELSE NextIteration(call, answer)

\* A variant that goes on after every rate-limit message.
fetchWithRetryEager(call, answer, result) ==
    IF answer = "rateLimit" THEN NextIteration(call, answer)
    ELSE IF answer = "noTransactions"
    THEN [call EXCEPT !.state = "returned", !.last = answer,
                      !.data = <<[status |-> "1", result |-> <<>>]>>]
    ELSE IF answer = "ok"
    THEN [call EXCEPT !.state = "returned", !.last = answer,
                      !.data = <<[status |-> "1", result |-> result]>>]
    ELSE Caught(call, answer)

\* A variant that takes "No transactions found" for an error of the explorer.
fetchWithRetryStrict(call, answer, result) ==
    IF answer = "ok"
    THEN [call EXCEPT !.state = "returned", !.last = answer,
                      !.data = <<[status |-> "1", result |-> result]>>]
    ELSE Caught(call, answer)

\* One iteration of fetchWithRetry, the explorer's answer to its request
\* given; `result` is the result field of a status "1" body.
fetchWithRetry(call, answer, result) ==
    CASE answer = "fetchThrows" -> Caught(call, answer)
      [] answer = "httpError" ->
            IF call.requests - 1 = maxRetries - 1
            THEN Caught(call, answer)
            ELSE NextIteration(call, answer)
      [] answer = "noTransactions" ->
            [call EXCEPT !.state = "returned", !.last = answer,
                         !.data = <<[status |-> "1", result |-> <<>>]>>]
      [] answer = "rateLimit" ->
            IF call.requests - 1 < maxRetries - 1
            THEN NextIteration(call, answer)
            ELSE Caught(call, answer)
      [] answer = "apiError" -> Caught(call, answer)
      [] answer = "ok" ->
            [call EXCEPT !.state = "returned", !.last = answer,
                         !.data = <<[status |-> "1", result |-> result]>>]

\* The explorer is truthful about the wallet: it says "No transactions found"
\* of a wallet without transactions and lists the transactions of another.
Truthful(c, answer) ==
    c = "txlist" =>
        /\ answer = "noTransactions" => transactions = <<>>
        /\ answer = "ok" => transactions # <<>>

ResultOf(c) == IF c = "txlist" THEN transactions ELSE <<"1000000000000000000">>

\* analyze-wallet takes a request for a network it has an explorer for, the
\* keys being set, and starts its two explorer calls.
BeginAnalysis(network) ==
    /\ analyzing = ""
    /\ \A c \in Calls : calls[c].state # "waiting"
    /\ network \in ANALYZE_NETWORKS
    /\ analyzing' = network
    /\ calls' = [c \in Calls |-> FirstRequest]
    /\ UNCHANGED <<pollerVars, response, historyVars, dashVars, riskVars, clientVars>>

\* The explorer answers the request a call is waiting for.
ExplorerAnswers(c, answer) ==
    /\ calls[c].state = "waiting"
    /\ Truthful(c, answer)
    /\ calls' = [calls EXCEPT ![c] = fetchWithRetry(calls[c], answer, ResultOf(c))]
    /\ UNCHANGED <<pollerVars, response, historyVars, dashVars, riskVars, analyzing, clientVars>>

\* Both calls have returned: the handler scores the list it was given, stores
\* and responds.
CompleteAnalysis(txStored, riskStored) ==
    /\ analyzing # ""
    /\ \A c \in Calls : calls[c].state = "returned"
    /\ LET etherscanData == calls["txlist"].data[1]
       IN  /\ etherscanData.result = transactions
           /\ StoreAndRespond(riskAnalysis(etherscanData.result, now), txStored, riskStored)
    /\ analyzing' = ""
    /\ UNCHANGED calls

\* A call has thrown (or returned nothing, which the handler cannot read):
\* Promise.all rejects, the handler answers 500 and stores nothing; the other
\* call runs on.
AnalysisThrows ==
    /\ analyzing # ""
    /\ \E c \in Calls : calls[c].state \in {"threw", "returnedNothing"}
    /\ analysisResponse' = [status |-> 500, riskAnalysis |-> <<>>]
    /\ analyzing' = ""
    /\ UNCHANGED <<now, transactions, wallet_transactions, wallet_risk_ratings, analyses>>
    /\ UNCHANGED <<pollerVars, response, historyVars, dashVars, calls, clientVars>>

-----------------------------------------------------------------------------
(* useRealTimeBalance and BitqueryBalanceService *)

MaxStarts == 2
MaxFetches == 3

Starts == 1..MaxStarts

\* The wallets the hook is given (at least one: startTracking and
\* fetchBalances return at once otherwise).
Wallets == {"0xw1", "0xw2"}

\* Native amounts the balance edge function reports.
Amounts == {"2.5", "3.1"}

\* What the call of the bitquery-balance function comes to: the amount it
\* reports for the wallets, a null body, or an error (returned or thrown).
Outcomes == Amounts \cup {"null", "error"}

NoBalances == [w \in Wallets |-> "none"]

\* BitqueryBalanceService.getCurrentBalances: the data of the edge function,
\* {} for null data, and on an error an entry of amount "0" per wallet.
getCurrentBalances(known, outcome) ==
    IF outcome = "error" THEN [w \in Wallets |-> "0"]
    ELSE IF outcome = "null" THEN NoBalances
    ELSE [w \in Wallets |-> outcome]

\* fetchBalances is called (by startTracking call `by`, or by a timer: 0).
NewFetch(by) == [id |-> fetched + 1, by |-> by, stale |-> FALSE]

\* BalanceTracker's effect calls startTracking: it runs up to the await of
\* initWebSocket.
startTracking(i) ==
    /\ Wallets # {}
    /\ tracking_pc[i] = "idle"
    /\ \A j \in Starts : j < i => tracking_pc[j] # "idle"
    /\ tracking_pc' = [tracking_pc EXCEPT ![i] = "initWebSocket"]
    /\ lastCall' = "start"
    /\ UNCHANGED <<balances, lastUpdate, trackerConnected, subscriptionRef, intervalRef,
                   armed, listeners, inFlight, fetched, lastFetch, cancelled>>
    /\ UNCHANGED <<pollerVars, response, historyVars, dashVars, riskVars, fetchVars, tabVars, gatewayVars, moreVars>>

\* initWebSocket has resolved: startTracking sets isConnected, registers the
\* listener, subscribes and calls fetchBalances, which awaits the service.
WebSocketReady(i) ==
    /\ tracking_pc[i] = "initWebSocket"
    /\ fetched < MaxFetches
    /\ trackerConnected' = TRUE
    /\ listeners' = listeners \cup {"handleBalanceUpdate"}
    /\ subscriptionRef' = TRUE
    /\ inFlight' = inFlight \cup {NewFetch(i)}
    /\ fetched' = fetched + 1
    /\ tracking_pc' = [tracking_pc EXCEPT ![i] = "fetchBalances"]
    /\ UNCHANGED <<balances, lastUpdate, intervalRef, armed, lastFetch, cancelled, lastCall>>
    /\ UNCHANGED <<pollerVars, response, historyVars, dashVars, riskVars, fetchVars, tabVars, gatewayVars, moreVars>>

\* A refresh timer fires and calls fetchBalances.
RefreshTimerFires(t) ==
    /\ t \in armed
    /\ fetched < MaxFetches
    /\ inFlight' = inFlight \cup {NewFetch(0)}
    /\ fetched' = fetched + 1
    /\ UNCHANGED <<balances, lastUpdate, trackerConnected, subscriptionRef, intervalRef,
                   armed, listeners, tracking_pc, lastFetch, cancelled, lastCall>>
    /\ UNCHANGED <<pollerVars, response, historyVars, dashVars, riskVars, fetchVars, tabVars, gatewayVars, moreVars>>

\* getCurrentBalances resolves in a fetchBalances call: the hook sets balances
\* and lastUpdate; a startTracking that awaited this fetch goes on and arms
\* its 30-second timer.
FetchReturns(f, outcome) ==
    /\ f \in inFlight
    /\ inFlight' = inFlight \ {f}
    /\ lastFetch' = [id |-> f.id, outcome |-> outcome, stale |-> f.stale]
    /\ balances' = getCurrentBalances(balances, outcome)
    /\ lastUpdate' = f.id
    /\ IF f.by \in Starts
       THEN /\ tracking_pc' = [tracking_pc EXCEPT ![f.by] = "done"]
            /\ intervalRef' = f.by
            /\ armed' = armed \cup {f.by}
       ELSE UNCHANGED <<tracking_pc, intervalRef, armed>>
    /\ UNCHANGED <<trackerConnected, subscriptionRef, listeners, fetched, cancelled, lastCall>>
    /\ UNCHANGED <<pollerVars, response, historyVars, dashVars, riskVars, fetchVars, tabVars, gatewayVars, moreVars>>

\* stopTracking: unsubscribes, clears the timer intervalRef holds, removes the
\* listener, clears isConnected.
stopTracking ==
    /\ subscriptionRef' = FALSE
    /\ armed' = armed \ {intervalRef}
    /\ intervalRef' = 0
    /\ listeners' = listeners \ {"handleBalanceUpdate"}
    /\ trackerConnected' = FALSE
    /\ inFlight' = {[f EXCEPT !.stale = TRUE] : f \in inFlight}
    /\ cancelled' = cancelled \cup
                       {i \in Starts : tracking_pc[i] \in {"initWebSocket", "fetchBalances"}}
    /\ lastCall' = "stop"
    /\ UNCHANGED <<balances, lastUpdate, tracking_pc, fetched, lastFetch>>
    /\ UNCHANGED <<pollerVars, response, historyVars, dashVars, riskVars, fetchVars, tabVars, gatewayVars, moreVars>>

-----------------------------------------------------------------------------
(* StablecoinTransfersTab: fetchAllNetworkTransfers *)

MaxPerNetwork == 35

DisplayLimit == 100

\* Object.keys(SUPPORTED_NETWORKS) without xrp.
TabNetworks == SUPPORTED_NETWORKS \ {"xrp"}

bitqueryId(networkKey) ==
    CASE networkKey = "ethereum" -> "eth"
      [] networkKey = "polygon" -> "polygon"
      [] networkKey = "avalanche" -> "avalanche"
      [] networkKey = "arbitrum" -> "arbitrum"
      [] OTHER -> "eth"

Shift(networkKey) ==
    CASE networkKey = "ethereum" -> 0
      [] networkKey = "polygon" -> 0
      [] networkKey = "avalanche" -> 1
      [] OTHER -> 2

\* The transfers array fetch-stablecoin-transfers returns for a network:
\* up to MaxPerNetwork transfers, oldest first, carrying the network name of
\* the backend.
Returned(networkKey) ==
    [j \in 1..(MaxPerNetwork - Shift(networkKey)) |->
        [amount |-> j,
         timestamp |-> j + 2 * Shift(networkKey),
         network |-> bitqueryId(networkKey)]]

\* How the invoke of one network comes out: it throws, it returns an error,
\* its data holds no transfers array, or it holds the array.
FetchOutcomes == {"throws", "error", "noArray", "array"}

\* Array.map over the network's transfers, putting the frontend key.
Tagged(list, networkKey) ==
    [j \in DOMAIN list |-> [list[j] EXCEPT !.network = networkKey]]

Fulfilled(list) == [status |-> "fulfilled", value |-> list]

Rejected == [status |-> "rejected", value |-> <<>>]

\* A variant without the try/catch around the invoke of a network.
ContributionUnguarded(networkKey, outcome) ==
    IF outcome = "throws" THEN Rejected
    ELSE IF outcome \in {"error", "noArray"} THEN Fulfilled(<<>>)
    ELSE Fulfilled(Tagged(Returned(networkKey), networkKey))

\* How the mapped promise of a network settles: it is fulfilled, with [] when
\* the invoke threw, returned an error or returned no transfers array.
Contribution(networkKey, outcome) ==
    IF outcome \in {"throws", "error"} THEN Fulfilled(<<>>)
    ELSE IF outcome = "noArray" THEN Fulfilled(<<>>)
    ELSE Fulfilled(Tagged(Returned(networkKey), networkKey))

RECURSIVE Flat(_, _)
\* results.flat(), the networks in the order of Object.keys.
Flat(order, res) ==
    IF order = <<>> THEN <<>> ELSE res[Head(order)].value \o Flat(Tail(order), res)

NetworkOrder == <<"ethereum", "polygon", "avalanche", "arbitrum">>

TimeOf(list) == {list[j].timestamp : j \in DOMAIN list}

Newest(list) == CHOOSE t \in TimeOf(list) : \A u \in TimeOf(list) : u <= t

AtTime(list, t) == SelectSeq(list, LAMBDA x : x.timestamp = t)

NotAtTime(list, t) == SelectSeq(list, LAMBDA x : x.timestamp # t)

RECURSIVE SortOldestFirst(_)
\* A variant of the sort that puts the oldest first.
SortOldestFirst(list) ==
    IF list = <<>> THEN <<>>
    ELSE SortOldestFirst(NotAtTime(list, Newest(list))) \o AtTime(list, Newest(list))

RECURSIVE SortByTimestamp(_)
\* Array.sort with (a, b) => time(b) - time(a): most recent first, entries
\* of one time in the order they had.
SortByTimestamp(list) ==
    IF list = <<>> THEN <<>>
    ELSE AtTime(list, Newest(list)) \o SortByTimestamp(NotAtTime(list, Newest(list)))

slice(list, n) == SubSeq(list, 1, Min(n, Len(list)))

\* fetchAllNetworkTransfers is called (on mount, by the 15-second timer or by
\* the refresh button): it invokes the function for every network.
fetchAllNetworkTransfers ==
    /\ ~isLoadingTransfers
    /\ isLoadingTransfers' = TRUE
    /\ errorToast' = FALSE
    /\ results' = [n \in TabNetworks |-> Fulfilled(<<>>)]
    /\ answered' = [n \in TabNetworks |-> "pending"]
    /\ UNCHANGED transfers
    /\ UNCHANGED <<pollerVars, response, historyVars, dashVars, riskVars, fetchVars, hookVars, gatewayVars, moreVars>>

\* The invoke of one network settles.
NetworkAnswers(networkKey, outcome) ==
    /\ isLoadingTransfers
    /\ answered[networkKey] = "pending"
    /\ results' = [results EXCEPT ![networkKey] = Contribution(networkKey, outcome)]
    /\ answered' = [answered EXCEPT ![networkKey] = outcome]
    /\ UNCHANGED <<transfers, isLoadingTransfers, errorToast>>
    /\ UNCHANGED <<pollerVars, response, historyVars, dashVars, riskVars, fetchVars, hookVars, gatewayVars, moreVars>>

\* Promise.all has settled: the round merges, sorts, truncates and displays;
\* had a promise rejected, the outer catch would show its toast instead.
RoundCompletes ==
    /\ isLoadingTransfers
    /\ \A n \in TabNetworks : answered[n] # "pending"
    /\ IF \E n \in TabNetworks : results[n].status = "rejected"
       THEN /\ errorToast' = TRUE
            /\ UNCHANGED transfers
       ELSE /\ transfers' = slice(SortByTimestamp(Flat(NetworkOrder, results)), DisplayLimit)
            /\ UNCHANGED errorToast
    /\ isLoadingTransfers' = FALSE
    /\ UNCHANGED <<results, answered>>
    /\ UNCHANGED <<pollerVars, response, historyVars, dashVars, riskVars, fetchVars, hookVars, gatewayVars, moreVars>>

-----------------------------------------------------------------------------
(* api-stablecoin-transfers: the gateway *)

\* Requests the model lets the gateway receive.
MaxRequests == 4
\* Handlers that may be running at the same time.
MaxHandlers == 2
\* Half minutes the model lets the clock advance.
MaxAdvances == 3
\* rate_limit_per_minute of the keys of the model (60 by default).
RateLimit == 2

\* The width of the rate-limit window, in milliseconds.
Window == 60000

Handlers == 1..MaxHandlers

\* The x-api-key headers a request may carry, "" for none.
ApiKeys == {"", "wm_unknown", "wm_inactive", "wm_expiring", "wm_good"}

\* The hex SHA-256 digest of a key.
sha256(apiKey) == "sha256:" \o apiKey

\* The api_keys table; expires_at is <<>> for null.
api_keys ==
    { [id |-> "id_good", key_hash |-> sha256("wm_good"), is_active |-> TRUE,
       rate_limit_per_minute |-> RateLimit, expires_at |-> <<>>],
      [id |-> "id_expiring", key_hash |-> sha256("wm_expiring"), is_active |-> TRUE,
       rate_limit_per_minute |-> RateLimit, expires_at |-> <<Window \div 2>>],
      [id |-> "id_inactive", key_hash |-> sha256("wm_inactive"), is_active |-> FALSE,
       rate_limit_per_minute |-> RateLimit, expires_at |-> <<>>] }

\* The rows the key lookup selects: eq key_hash, eq is_active true.
Selected(apiKey) ==
    {row \in api_keys : row.key_hash = sha256(apiKey) /\ row.is_active}

\* The exact count of the key's api_usage rows of the last minute.
UsageCount(apiKeyId) ==
    BagCardinality([row \in {r \in BagToSet(api_usage) :
                                /\ r.api_key_id = apiKeyId
                                /\ r.timestamp >= clock - Window}
                       |-> api_usage[row]])

Refused(error, limited) ==
    [valid |-> FALSE, error |-> error, rate_limit_reset |-> limited,
     apiKeyId |-> "", remaining |-> 0]

\* validateApiKey.  lookupOk: the key lookup returned no error; countOk: the
\* count query returned a count.  Its error is not read, and the null count of
\* a failed query compares and subtracts as 0.
validateApiKey(apiKey, lookupOk, countOk) ==
    IF apiKey = "" THEN Refused("API key is required", FALSE)
    ELSE IF ~lookupOk \/ Selected(apiKey) = {} THEN Refused("Invalid API key", FALSE)
    ELSE LET apiKeyData == CHOOSE row \in Selected(apiKey) : TRUE
             count == IF countOk THEN UsageCount(apiKeyData.id) ELSE 0
         IN  IF apiKeyData.expires_at # <<>> /\ apiKeyData.expires_at[1] < clock
             THEN Refused("API key has expired", FALSE)
             ELSE IF count >= apiKeyData.rate_limit_per_minute
             THEN Refused("Rate limit exceeded", TRUE)
             ELSE [valid |-> TRUE, error |-> "", rate_limit_reset |-> FALSE,
                   apiKeyId |-> apiKeyData.id,
                   remaining |-> apiKeyData.rate_limit_per_minute - count]

\* A response of the gateway; requests_remaining is <<>> without a usage part.
ApiResponse(status, error, requests_remaining) ==
    [status |-> status, error |-> error, requests_remaining |-> requests_remaining]

NoApiResponse == ApiResponse(0, "", <<>>)

NoRequest == [pc |-> "idle", validation |-> Refused("", FALSE), statusCode |-> 0]

\* serve up to the validation: the key is validated, and a request that is
\* not valid is answered 401, or 429 with no requests remaining.
Receive(h, apiKey, lookupOk, countOk) ==
    /\ handler[h].pc = "idle"
    /\ received < MaxRequests
    /\ received' = received + 1
    /\ LET validation == validateApiKey(apiKey, lookupOk, countOk)
           asked == /\ apiKey # ""
                    /\ lookupOk
                    /\ Selected(apiKey) # {}
                    /\ validation.error # "API key has expired"
       IN  /\ uncounted' = (uncounted \/ (asked /\ ~countOk))
           /\ IF validation.valid
              THEN /\ handler' = [handler EXCEPT ![h].pc = "validated",
                                                 ![h].validation = validation]
                   /\ UNCHANGED lastReply
              ELSE /\ lastReply' = ApiResponse(
                          IF validation.error = "Rate limit exceeded" THEN 429 ELSE 401,
                          validation.error,
                          IF validation.rate_limit_reset THEN <<0>> ELSE <<>>)
                   /\ UNCHANGED handler
    /\ UNCHANGED <<clock, api_usage, invoked>>
    /\ UNCHANGED <<pollerVars, response, historyVars, dashVars, riskVars, fetchVars,
                   hookVars, tabVars, moreVars>>

\* serve from req.json() to the downstream function's answer.  A body that
\* is not JSON throws into the catch; otherwise fetch-stablecoin-transfers is
\* invoked and returns data or an error.
InvokeDownstream(h, body, outcome) ==
    /\ handler[h].pc = "validated"
    /\ IF body = "invalid"
       THEN /\ handler' = [handler EXCEPT ![h] = NoRequest]
            /\ lastReply' = ApiResponse(500, "Internal server error", <<>>)
            /\ UNCHANGED invoked
       ELSE /\ invoked' = invoked + 1
            /\ handler' = [handler EXCEPT ![h].pc = "logging",
                              ![h].statusCode = IF outcome = "error" THEN 500 ELSE 200]
            /\ UNCHANGED lastReply
    /\ UNCHANGED <<clock, api_usage, received, uncounted>>
    /\ UNCHANGED <<pollerVars, response, historyVars, dashVars, riskVars, fetchVars,
                   hookVars, tabVars, moreVars>>

\* logApiUsage and the response after it: the row is inserted with the
\* database's now() as its timestamp.
logApiUsage(h) ==
    /\ handler[h].pc = "logging"
    /\ api_usage' = api_usage (+) SetToBag(
          {[api_key_id |-> handler[h].validation.apiKeyId, timestamp |-> clock]})
    /\ lastReply' = IF handler[h].statusCode = 500
                    THEN ApiResponse(500, "Failed to fetch stablecoin transfers", <<>>)
                    ELSE ApiResponse(200, "", <<handler[h].validation.remaining - 1>>)
    /\ handler' = [handler EXCEPT ![h] = NoRequest]
    /\ UNCHANGED <<clock, invoked, received, uncounted>>
    /\ UNCHANGED <<pollerVars, response, historyVars, dashVars, riskVars, fetchVars,
                   hookVars, tabVars, moreVars>>

\* Half a minute passes.
HalfMinutePasses ==
    /\ clock < MaxAdvances * (Window \div 2)
    /\ clock' = clock + Window \div 2
    /\ UNCHANGED <<api_usage, handler, lastReply, invoked, received, uncounted>>
    /\ UNCHANGED <<pollerVars, response, historyVars, dashVars, riskVars, fetchVars,
                   hookVars, tabVars, moreVars>>

-----------------------------------------------------------------------------
(* analyze-wallet and wallet-history: the request handlers *)

EdgeFunctions == {"analyze-wallet", "wallet-history"}

\* The keys of SUPPORTED_NETWORKS in analyze-wallet/index.ts and in
\* wallet-history/index.ts: the four EVM networks in both.
EdgeNetworks(fn) ==
    IF fn = "analyze-wallet" THEN ANALYZE_NETWORKS
    ELSE {"ethereum", "polygon", "avalanche", "arbitrum"}

\* The network field of a request body, "undefined" when it has none.
RequestedNetworks == SUPPORTED_NETWORKS \cup {"solana", "undefined"}

\* const { network = 'ethereum' } = await req.json().
networkOrDefault(network) == IF network = "undefined" THEN "ethereum" ELSE network

\* The transaction lists an explorer answers wallet-history with: timeStamps,
\* newest first.
HistoryLists == {<<5>>, <<7, 5>>, <<9, 7, 5, 2>>}
\* startTimestamp and endTimestamp of the request.
startTimestamp == 4
endTimestamp == 8

NoEdgeRequest ==
    [fn |-> "", network |-> "", walletAddress |-> FALSE, dates |-> FALSE,
     etherscanApiKey |-> FALSE]

\* A response: by names the code path that returned it.
EdgeResponse(status, by, list) ==
    [status |-> status, by |-> by, transactions |-> list]

NoEdgeResponse == EdgeResponse(0, "", <<>>)

\* What serve does with a request up to its first await of an API: the
\* response it returns, or the handler it goes on in.  <<pc, response>>.
analyzeWalletServe(request) ==
    LET network == networkOrDefault(request.network)
    IN  IF ~request.walletAddress
        THEN <<"idle", EdgeResponse(500, "catch", <<>>)>>
        ELSE IF network \notin EdgeNetworks("analyze-wallet")
        THEN <<"idle", EdgeResponse(500, "catch", <<>>)>>
        ELSE IF network = "xrp"
        THEN <<"handleXRPAnalysis", NoEdgeResponse>>
        ELSE IF ~request.etherscanApiKey
        THEN <<"idle", EdgeResponse(500, "catch", <<>>)>>
        ELSE <<"fetchWithRetry", NoEdgeResponse>>

walletHistoryServe(request) ==
    LET network == networkOrDefault(request.network)
    IN  IF ~request.walletAddress \/ ~request.dates
        THEN <<"idle", EdgeResponse(400, "required", <<>>)>>
        ELSE IF network \notin EdgeNetworks("wallet-history")
        THEN <<"idle", EdgeResponse(400, "unsupported", <<>>)>>
        ELSE IF network = "xrp"
        THEN <<"handleXRPTransactions", NoEdgeResponse>>
        ELSE IF ~request.etherscanApiKey
        THEN <<"idle", EdgeResponse(500, "config", <<>>)>>
        ELSE <<"fetch", NoEdgeResponse>>

\* normalTxData.result.filter: the transactions within the requested dates.
filteredTransactions(result) ==
    SelectSeq(result, LAMBDA txTimestamp :
                          txTimestamp >= startTimestamp /\ txTimestamp <= endTimestamp)

\* A request arrives and is handled up to its first API request.
EdgeReceive(fn, network, walletAddress, dates, etherscanApiKey) ==
    /\ edgePc = "idle"
    /\ LET request == [fn |-> fn, network |-> network, walletAddress |-> walletAddress,
                       dates |-> dates, etherscanApiKey |-> etherscanApiKey]
           served == IF fn = "analyze-wallet" THEN analyzeWalletServe(request)
                     ELSE walletHistoryServe(request)
       IN  /\ edgeRequest' = request
           /\ edgePc' = served[1]
           /\ edgeResponse' = served[2]
           /\ explorerRequests' = IF served[1] = "idle" THEN 0 ELSE 1
    /\ lastAnswer' = ""
    /\ UNCHANGED <<earlierVars, walletVars, stableVars>>

\* The API answers.  wallet-history's EVM path returns 400 with the
\* explorer's message for any status other than "1" and the filtered list
\* otherwise; a throw goes to the catch.  analyze-wallet's EVM path is the
\* fetchWithRetry modelled above, here with its outcome only; the XRP
\* handlers return the ledger's list or their own error.
EdgeAnswers(answer, result) ==
    /\ edgePc # "idle"
    /\ lastAnswer' = answer
    /\ edgePc' = "idle"
    /\ edgeResponse' =
          CASE edgePc = "fetch" ->
                  IF answer = "fetchThrows" THEN EdgeResponse(500, "catch", <<>>)
                  ELSE IF answer # "ok" THEN EdgeResponse(400, "explorerError", <<>>)
                  ELSE EdgeResponse(200, "evm", filteredTransactions(result))
            [] edgePc = "fetchWithRetry" ->
                  IF answer \in {"ok", "noTransactions"}
                  THEN EdgeResponse(200, "evm", IF answer = "ok" THEN result ELSE <<>>)
                  ELSE EdgeResponse(500, "catch", <<>>)
            [] edgePc = "handleXRPAnalysis" ->
                  IF answer = "ok" THEN EdgeResponse(200, "xrp", result)
                  ELSE EdgeResponse(500, "xrpCatch", <<>>)
            [] edgePc = "handleXRPTransactions" ->
                  IF answer = "ok" THEN EdgeResponse(200, "xrp", filteredTransactions(result))
                  ELSE IF answer = "fetchThrows" THEN EdgeResponse(500, "xrpCatch", <<>>)
                  ELSE EdgeResponse(400, "xrp", <<>>)
    /\ UNCHANGED <<edgeRequest, explorerRequests>>
    /\ UNCHANGED <<earlierVars, walletVars, stableVars>>

-----------------------------------------------------------------------------
(* useWalletStorage: the tracked wallets *)

\* addWallet calls the model allows.
MaxAdds == 3
\* Requests to the table that may be in flight at the same time.
MaxPending == 2

\* The addresses a user types into AddWalletForm.
TypedAddresses == {"0xAB", "0xab", "0xCD"}

WalletNetworks == {"ethereum", "polygon"}

\* String.prototype.toLowerCase on those addresses.
toLowerCase(address) ==
    CASE address = "0xAB" -> "0xab"
      [] address = "0xCD" -> "0xcd"
      [] OTHER -> address

Reverse(list) == [i \in 1..Len(list) |-> list[Len(list) + 1 - i]]

\* A variant of the check that finds nothing.
existsNever(list, walletData) == FALSE

\* wallets.some(...): a wallet of the list has the address, compared in lower
\* case, and the network of walletData.
exists(list, walletData) ==
    \E i \in DOMAIN list :
        /\ toLowerCase(list[i].address) = toLowerCase(walletData.address)
        /\ list[i].network = walletData.network

\* INSERT into tracked_wallets: the primary key and the unique index
\* unique_wallet_network on (address, network) reject the row.
InsertWallet(table, row) ==
    IF \E i \in DOMAIN table :
          \/ table[i].id = row.id
          \/ table[i].address = row.address /\ table[i].network = row.network
    THEN table
    ELSE Append(table, row)

\* handleSubmit of AddWalletForm and addWallet up to its await: the form
\* lowercases the address; a wallet the list has is refused with a toast;
\* otherwise the new wallet is put at the head of the list, the list is
\* saved to localStorage and the insert is sent.
addWallet(typed, network) ==
    /\ nextId <= MaxAdds
    /\ Cardinality(pendingOps) < MaxPending
    /\ LET walletData == [address |-> toLowerCase(typed), network |-> network]
           newWallet == [id |-> nextId, address |-> walletData.address,
                         network |-> walletData.network]
           updatedWallets == <<newWallet>> \o wallets
       IN  IF exists(wallets, walletData)
           THEN UNCHANGED <<wallets, localStorage, pendingOps, nextId>>
           ELSE /\ wallets' = updatedWallets
                /\ localStorage' = <<updatedWallets>>
                /\ pendingOps' = pendingOps \cup {[op |-> "insert", row |-> newWallet]}
                /\ nextId' = nextId + 1
    /\ UNCHANGED tracked_wallets
    /\ UNCHANGED <<earlierVars, edgeVars, stableVars>>

\* removeWallet up to its await, for a wallet of the list.
removeWallet(walletId) ==
    /\ \E i \in DOMAIN wallets : wallets[i].id = walletId
    /\ Cardinality(pendingOps) < MaxPending
    /\ LET updatedWallets == SelectSeq(wallets, LAMBDA w : w.id # walletId)
       IN  /\ wallets' = updatedWallets
           /\ localStorage' = <<updatedWallets>>
    /\ pendingOps' = pendingOps \cup {[op |-> "delete", row |-> [id |-> walletId]]}
    /\ UNCHANGED <<tracked_wallets, nextId>>
    /\ UNCHANGED <<earlierVars, edgeVars, stableVars>>

\* fetchWallets up to its await: the list stored in localStorage, if any, is
\* shown, and the select is sent.
fetchWallets ==
    /\ Cardinality(pendingOps) < MaxPending
    /\ [op |-> "select", row |-> [id |-> 0]] \notin pendingOps
    /\ wallets' = IF localStorage # <<>> THEN localStorage[1] ELSE wallets
    /\ pendingOps' = pendingOps \cup {[op |-> "select", row |-> [id |-> 0]]}
    /\ UNCHANGED <<localStorage, tracked_wallets, nextId>>
    /\ UNCHANGED <<earlierVars, edgeVars, stableVars>>

\* The table answers a request.  available: Supabase executed it (else the
\* hook logs a warning and keeps what it has).  The select's rows, newest
\* first, replace the list and the localStorage item.
TableAnswers(request, available) ==
    /\ request \in pendingOps
    /\ pendingOps' = pendingOps \ {request}
    /\ tracked_wallets' =
          IF ~available THEN tracked_wallets
          ELSE IF request.op = "insert" THEN InsertWallet(tracked_wallets, request.row)
          ELSE IF request.op = "delete"
          THEN SelectSeq(tracked_wallets, LAMBDA w : w.id # request.row.id)
          ELSE tracked_wallets
    /\ IF available /\ request.op = "select"
       THEN /\ wallets' = Reverse(tracked_wallets)
            /\ localStorage' = <<Reverse(tracked_wallets)>>
       ELSE UNCHANGED <<wallets, localStorage>>
    /\ UNCHANGED nextId
    /\ UNCHANGED <<earlierVars, edgeVars, stableVars>>

-----------------------------------------------------------------------------
(* fetch-stablecoin-transfers: storing the fetched transfers *)

MaxTransfers == 3

\* limit: { count: ... } of the query, scaled down.
LimitCount == 2

\* The Bitquery ids the tab asks for.
StableNetworks == {"eth", "polygon"}

\* The i-th stablecoin transfer of a network, as Bitquery reports it: one
\* per block time, each network with senders of its own.
ChainTransfer(network, i) ==
    [Block |-> [Time |-> i],
     Transfer |-> [Amount |-> 1,
                   Currency |-> [Name |-> "USD Coin", Symbol |-> "USDC"],
                   Sender |-> network,
                   Receiver |-> "0xr"]]

\* The answer to the query: the latest LimitCount transfers of the network,
\* newest first.
LatestTransfers(network) ==
    LET n == Min(chain[network], LimitCount)
    IN  [i \in 1..n |-> ChainTransfer(network, chain[network] + 1 - i)]

transfersToInsert(list, network) ==
    [i \in DOMAIN list |->
        [block_time |-> list[i].Block.Time,
         token_symbol |-> list[i].Transfer.Currency.Symbol,
         token_name |-> list[i].Transfer.Currency.Name,
         amount |-> list[i].Transfer.Amount,
         sender_address |-> list[i].Transfer.Sender,
         receiver_address |-> list[i].Transfer.Receiver,
         network |-> network]]

\* The columns of the constraint unique_transfer_hash_sender.
UniqueTransferKey(row) ==
    <<row.block_time, row.sender_address, row.receiver_address, row.amount,
      row.token_symbol>>

\* .insert(rows): one INSERT statement.  A row whose key the table, or an
\* earlier row of the statement, has violates the constraint, and the
\* statement then stores none of its rows.
InsertTransfers(table, rows) ==
    LET all == table \o rows
    IN  IF \E i, j \in DOMAIN all :
              i < j /\ j > Len(table) /\ UniqueTransferKey(all[i]) = UniqueTransferKey(all[j])
        THEN [error |-> TRUE, table |-> table]
        ELSE [error |-> FALSE, table |-> all]

NoFetchReply == [upstream |-> "", network |-> "", transfers |-> <<>>, insertError |-> FALSE]

\* A stablecoin transfer is made on a network.
TransferOnChain(network) ==
    /\ chain[network] < MaxTransfers
    /\ chain' = [chain EXCEPT ![network] = @ + 1]
    /\ UNCHANGED <<stablecoin_transfers, fetchReply>>
    /\ UNCHANGED <<earlierVars, edgeVars, walletVars>>

\* fetch-stablecoin-transfers handles a request, Bitquery answering with the
\* network's latest transfers: it inserts them (an insert error is logged)
\* and returns them.
FetchStablecoinTransfers(network) ==
    LET list == LatestTransfers(network)
        inserted == InsertTransfers(stablecoin_transfers, transfersToInsert(list, network))
    IN  /\ stablecoin_transfers' = IF Len(list) > 0 THEN inserted.table
                                   ELSE stablecoin_transfers
        /\ fetchReply' = [upstream |-> "ok", network |-> network, transfers |-> list,
                          insertError |-> Len(list) > 0 /\ inserted.error]
        /\ UNCHANGED chain
        /\ UNCHANGED <<earlierVars, edgeVars, walletVars>>

\* Bitquery answers with an error status or without data.EVM.Transfers: the
\* function returns an empty list and stores nothing.
FetchUpstreamFails(network) ==
    /\ fetchReply' = [upstream |-> "failed", network |-> network, transfers |-> <<>>,
                      insertError |-> FALSE]
    /\ UNCHANGED <<chain, stablecoin_transfers>>
    /\ UNCHANGED <<earlierVars, edgeVars, walletVars>>

-----------------------------------------------------------------------------
(* Specifications *)

\* The state after deployment: no timer armed, the table empty, no dashboard
\* connected.
Start ==
    /\ tokenSet \in BOOLEAN
    /\ timers = 0
    /\ pc = [p \in Ticks |-> "idle"]
    /\ todo = [p \in Ticks |-> <<>>]
    /\ real_time_transfers = {}
    /\ response = NoResponse
    /\ lastBatch = NoBatch
    /\ streak = 0
    /\ tickLog = <<>>
    /\ upstreamFailed = FALSE
    /\ isConnected = [d \in Dashboards |-> FALSE]
    /\ subscribed = [d \in Dashboards |-> FALSE]
    /\ inbox = [d \in Dashboards |-> <<>>]
    /\ allTransfers = [d \in Dashboards |-> <<>>]
    /\ allWhaleAlerts = [d \in Dashboards |-> <<>>]
    /\ joinedAt = [d \in Dashboards |-> 0]

\* The hook as mounted: no balances, nothing tracked.
HookStart ==
    /\ balances = NoBalances
    /\ lastUpdate = 0
    /\ trackerConnected = FALSE
    /\ subscriptionRef = FALSE
    /\ intervalRef = 0
    /\ armed = {}
    /\ listeners = {}
    /\ tracking_pc = [i \in Starts |-> "idle"]
    /\ inFlight = {}
    /\ fetched = 0
    /\ lastFetch = [id |-> 0, outcome |-> "", stale |-> FALSE]
    /\ cancelled = {}
    /\ lastCall = ""

\* The tab as mounted, before its first round.
TabStart ==
    /\ transfers = <<>>
    /\ isLoadingTransfers = FALSE
    /\ errorToast = FALSE
    /\ results = [n \in TabNetworks |-> Fulfilled(<<>>)]
    /\ answered = [n \in TabNetworks |-> "none"]

\* The gateway as deployed: no usage logged, no request received.
GatewayStart ==
    /\ clock = 0
    /\ api_usage = EmptyBag
    /\ handler = [h \in Handlers |-> NoRequest]
    /\ lastReply = NoApiResponse
    /\ invoked = 0
    /\ received = 0
    /\ uncounted = FALSE

\* No request to the handlers yet.
EdgeStart ==
    /\ edgeRequest = NoEdgeRequest
    /\ edgePc = "idle"
    /\ edgeResponse = NoEdgeResponse
    /\ explorerRequests = 0
    /\ lastAnswer = ""

\* The hook before its mount, on a device that has stored nothing, the table
\* empty.
WalletStart ==
    /\ wallets = <<>>
    /\ localStorage = <<>>
    /\ tracked_wallets = <<>>
    /\ pendingOps = {}
    /\ nextId = 1

\* No transfer made, none stored, no request to fetch-stablecoin-transfers.
StableStart ==
    /\ chain = [n \in StableNetworks |-> 0]
    /\ stablecoin_transfers = <<>>
    /\ fetchReply = NoFetchReply

\* No request to analyze-wallet yet.
RiskStart ==
    /\ now = FirstNow
    /\ wallet_transactions = {}
    /\ wallet_risk_ratings = <<>>
    /\ analysisResponse = NoAnalysis
    /\ analyses = <<>>
    /\ analyzing = ""
    /\ calls = [c \in Calls |-> NoCall]
    /\ HookStart
    /\ TabStart
    /\ GatewayStart
    /\ EdgeStart
    /\ WalletStart
    /\ StableStart

Init == Start /\ tracking = TRUE /\ RiskStart /\ transactions = <<>>

InitUntracked == Start /\ tracking = FALSE /\ RiskStart /\ transactions = <<>>

InitRisk == Start /\ tokenSet = FALSE /\ tracking = FALSE /\ RiskStart /\ transactions \in TxLists

\* The polling, one callback at a time: start_monitoring requests and the
\* timer's callback, upstream answering with any list.
Next ==
    \/ ServeStartMonitoring
    \/ Tick(1, Batches)

Spec == Init /\ [][Next]_vars

\* Overlapping callbacks (several timers, or a callback outlasting the
\* interval), upstream answering with well-formed lists.
NextOverlap ==
    \/ ServeStartMonitoring
    \/ \E p \in Ticks : Tick(p, CleanBatches)

SpecOverlap == InitUntracked /\ [][NextOverlap]_vars

\* The edge function with all its requests.
NextServe ==
    \/ ServeStartMonitoring
    \/ ServeGetRecentTransfers
    \/ ServeGetWhaleAlerts
    \/ ServeInvalidAction
    \/ Tick(1, CleanBatches)

SpecServe == InitUntracked /\ [][NextServe]_vars

\* The polling and the dashboards.
NextMonitor ==
    \/ Tick(1, CleanBatches)
    \/ \E d \in Dashboards : Dashboard(d)

SpecMonitor == InitUntracked /\ [][NextMonitor]_vars

\* analyze-wallet, asked about one wallet again and again as time passes.
NextRisk ==
    \/ \E network \in SUPPORTED_NETWORKS, txStored, riskStored \in BOOLEAN :
          AnalyzeWallet(network, txStored, riskStored)
    \/ AnalyzeWalletFails
    \/ ClockAdvances

SpecRisk == InitRisk /\ [][NextRisk]_vars

\* analyze-wallet, the explorer's list being in any order: up to MaxAgeTxs
\* transactions, each 40 days, 2 days or no time old at FirstNow.
MaxAgeTxs == 3

AgeStamps == {FirstNow - 40 * Day, FirstNow - 2 * Day, FirstNow}

AgeLists ==
    UNION {[1..n -> AgeStamps] : n \in 0..MaxAgeTxs}

InitAge ==
    /\ Start /\ tokenSet = FALSE /\ tracking = FALSE /\ RiskStart
    /\ \E stamps \in AgeLists :
          transactions = [i \in DOMAIN stamps |->
                             [hash |-> i, timeStamp |-> stamps[i], isError |-> "0"]]

SpecAge == InitAge /\ [][NextRisk]_vars

\* analyze-wallet with its explorer calls, the explorer answering each request
\* in any of the ways it can.
FewTxLists == {<<>>, TxList(1, 0, 0), TxList(10, 1, 30 * Day), TxList(MaxTxs, 0, 365 * Day)}

InitAnalyze ==
    Start /\ tokenSet = FALSE /\ tracking = FALSE /\ RiskStart /\ transactions \in FewTxLists

NextAnalyze ==
    \/ \E network \in SUPPORTED_NETWORKS : BeginAnalysis(network)
    \/ \E c \in Calls, answer \in Answers : ExplorerAnswers(c, answer)
    \/ \E txStored, riskStored \in BOOLEAN : CompleteAnalysis(txStored, riskStored)
    \/ AnalysisThrows
    \/ AnalyzeWalletFails

SpecAnalyze == InitAnalyze /\ [][NextAnalyze]_vars

\* The balance tracker: its effect starting and stopping the tracking, the
\* timers firing, the balance function answering in any way.
InitBalance == InitUntracked /\ tokenSet = FALSE

NextBalance ==
    \/ \E i \in Starts : startTracking(i)
    \/ \E i \in Starts : WebSocketReady(i)
    \/ \E t \in Starts : RefreshTimerFires(t)
    \/ \E f \in inFlight, outcome \in Outcomes : FetchReturns(f, outcome)
    \/ stopTracking

SpecBalance == InitBalance /\ [][NextBalance]_vars

\* The stablecoin transfers tab, round after round, each network answering in
\* any way.
NextAggregate ==
    \/ fetchAllNetworkTransfers
    \/ \E networkKey \in TabNetworks, outcome \in FetchOutcomes :
          NetworkAnswers(networkKey, outcome)
    \/ RoundCompletes

SpecAggregate == InitBalance /\ [][NextAggregate]_vars

\* The gateway: requests with any key arriving at handlers that run
\* concurrently, the database and the downstream function answering in any
\* way, the clock advancing.
NextGateway ==
    \/ \E h \in Handlers, apiKey \in ApiKeys, lookupOk \in BOOLEAN, countOk \in BOOLEAN :
          Receive(h, apiKey, lookupOk, countOk)
    \/ \E h \in Handlers, body \in {"json", "invalid"}, outcome \in {"data", "error"} :
          InvokeDownstream(h, body, outcome)
    \/ \E h \in Handlers : logApiUsage(h)
    \/ HalfMinutePasses

SpecGateway == InitBalance /\ [][NextGateway]_vars

\* The two handlers, asked with any body, the API answering in any way.
NextEdge ==
    \/ \E fn \in EdgeFunctions, network \in RequestedNetworks,
            walletAddress, dates, etherscanApiKey \in BOOLEAN :
          EdgeReceive(fn, network, walletAddress, dates, etherscanApiKey)
    \/ \E answer \in Answers, result \in HistoryLists : EdgeAnswers(answer, result)

SpecEdge == InitBalance /\ [][NextEdge]_vars

\* The tracked wallets: wallets added, removed and refetched in any order,
\* the table answering late, or not at all.
NextWallets ==
    \/ \E typed \in TypedAddresses, network \in WalletNetworks : addWallet(typed, network)
    \/ \E walletId \in 1..MaxAdds : removeWallet(walletId)
    \/ fetchWallets
    \/ \E request \in pendingOps, available \in BOOLEAN : TableAnswers(request, available)

SpecWallets == InitBalance /\ [][NextWallets]_vars

\* fetch-stablecoin-transfers asked again and again while transfers are made.
NextStable ==
    \/ \E network \in StableNetworks : TransferOnChain(network)
    \/ \E network \in StableNetworks : FetchStablecoinTransfers(network)
    \/ \E network \in StableNetworks : FetchUpstreamFails(network)

SpecStable == InitBalance /\ [][NextStable]_vars

-----------------------------------------------------------------------------
(* Properties of the ingestion poller *)

InSeq(x, list) == \E i \in DOMAIN list : list[i] = x

\* The stored rows with the hash, sender, receiver and block time of record r.
RowsOf(r) ==
    {row \in real_time_transfers : /\ row.hash = r.Hash
                                   /\ row.from_address = r.Sender
                                   /\ row.to_address = r.Receiver
                                   /\ row.timestamp = r.Time * 1000}

\* C1 (Spec).  Dedup idempotence: when a tick processes the list the tick
\* before it processed (no other callback running, the store answering every
\* call of both), it inserts nothing, and the table holds exactly one row for
\* (hash, from, to, timestamp) of each transfer of a well-formed list.
DedupIdempotent ==
    streak = 2 =>
        /\ ~InSeq("ins", tickLog)
        /\ lastBatch[1] \in CleanBatches =>
              \A i \in DOMAIN lastBatch[1] : Cardinality(RowsOf(lastBatch[1][i])) = 1

\* C1 witness: the second tick over a list of two transfers has ended, having
\* skipped both.
DedupIdempotentWitness ==
    /\ streak = 2
    /\ pc[1] = "done"
    /\ Len(lastBatch[1]) = 2
    /\ tickLog = <<"skip", "skip">>

\* C2 (SpecOverlap).  With callbacks interleaving their check-then-insert
\* steps in any order, no two rows agree on (hash, from_address, to_address,
\* timestamp), and a callback whose insert has returned -- rejected as a
\* duplicate or not -- is at the next record of its list.
NoDuplicateTransfer ==
    \A r1, r2 \in real_time_transfers :
        ( /\ r1.hash = r2.hash
          /\ r1.from_address = r2.from_address
          /\ r1.to_address = r2.to_address
          /\ r1.timestamp = r2.timestamp ) => r1 = r2

RejectedInsertGoesOn ==
    \A p \in Ticks :
        (pc[p] = "insert" /\ pc'[p] # "insert") =>
            /\ todo'[p] = Tail(todo[p])
            /\ pc'[p] = IF Tail(todo[p]) = <<>> THEN "done" ELSE "select"

ConcurrentPollersSafe == []NoDuplicateTransfer /\ [][RejectedInsertGoesOn]_vars

\* C2 witness: callback 1 has passed its duplicate check and is about to
\* insert a transfer that callback 2, running at the same time, has stored in
\* between; callback 1 has a further record to go on to.
ConcurrentPollersWitness ==
    /\ pc[1] = "insert"
    /\ pc[2] # "idle"
    /\ Len(todo[1]) = 2
    /\ \E row \in RowsOf(Head(todo[1])) : row.amount = parseFloat(Head(todo[1]).Amount)

\* C3 (Spec).  Every stored row has usd_value equal to the face amount of a
\* transfer upstream returned and is_whale true exactly when usd_value >=
\* 100000; 99999.99 is stored as no whale and 100000.00 as a whale.
WhaleClassification ==
    \A row \in real_time_transfers :
        /\ row.usd_value = row.amount
        /\ \E r \in Records :
              /\ r.Hash = row.hash
              /\ row.usd_value = r.Amount[1] * 100 + r.Amount[2]
        /\ row.is_whale <=> row.usd_value >= 100000 * 100
        /\ row.usd_value = 99999 * 100 + 99 => ~row.is_whale
        /\ row.usd_value = 100000 * 100 => row.is_whale

\* C3 witness: a transfer of 99999.99 is stored as no whale and one of
\* 100000.00 as a whale.
WhaleClassificationWitness ==
    \E small, big \in real_time_transfers :
        /\ small.usd_value = 99999 * 100 + 99 /\ ~small.is_whale
        /\ big.usd_value = 100000 * 100 /\ big.is_whale

\* C4 (Spec).  Once an upstream query has failed, a timer is still armed and
\* an idle callback can fire again and fetch a list; no step disarms a timer.
StillArmed ==
    upstreamFailed =>
        /\ timers > 0
        /\ \A p \in Ticks : pc[p] = "idle" => ENABLED FetchOk(p, <<TransferZ>>)

PollerSurvivesFailure == []StillArmed /\ [][timers' >= timers]_vars

\* C4 witness: after a failed tick, a tick has fetched a list and stored a
\* transfer of it.
PollerSurvivesFailureWitness ==
    /\ upstreamFailed
    /\ streak >= 1
    /\ InSeq("ins", tickLog)

\* C5 (Spec).  A callback ends before the end of its list only at a malformed
\* entry, never because an insert returned an error; the step on which an
\* insert returns takes the callback to the next record and removes no row.
StopsOnlyAtMalformed ==
    \A p \in Ticks :
        (pc[p] = "done" /\ todo[p] # <<>>) => Head(todo[p]).shape # "ok"

InsertReturnKeepsGoing ==
    \A p \in Ticks :
        (pc[p] = "insert" /\ pc'[p] # "insert") =>
            /\ todo'[p] = Tail(todo[p])
            /\ real_time_transfers \subseteq real_time_transfers'

InsertErrorTolerated == []StopsOnlyAtMalformed /\ [][InsertReturnKeepsGoing]_vars

\* C5 witness: in one tick an insert returned an error and a later transfer
\* of the list was stored.
InsertErrorToleratedWitness ==
    /\ lastBatch # NoBatch
    /\ \E i, j \in DOMAIN tickLog :
          /\ i < j
          /\ tickLog[i] \in {"err", "fail"}
          /\ tickLog[j] = "ins"

\* C6 (Spec), the claim as stated.  A malformed entry is skipped alone: when
\* the callback ends, no record after the one it stood at is left unhandled.
MalformedSkippedAlone ==
    \A p \in Ticks :
        pc[p] = "done" => (todo[p] = <<>> \/ Tail(todo[p]) = <<>>)

\* C7 (SpecMonitor).  For each dashboard whose channels are subscribed, every
\* row stored since it subscribed is in flight to it or in its transfer list,
\* and every such whale row is in flight or in its whale-alert list; the
\* handler puts the row at the head of the transfer list and, a whale, at the
\* head of the whale-alert list; no non-whale row is ever in a whale-alert
\* list; events are put in flight only by a step that stores a row.
FanOutComplete ==
    \A d \in Dashboards :
        subscribed[d] =>
            \A row \in real_time_transfers :
                row.id > joinedAt[d] =>
                    /\ InSeq(row, inbox[d]) \/ InSeq(row, allTransfers[d])
                    /\ row.is_whale => InSeq(row, inbox[d]) \/ InSeq(row, allWhaleAlerts[d])

OnlyWhalesAlerted ==
    \A d \in Dashboards :
        \A i \in DOMAIN allWhaleAlerts[d] : allWhaleAlerts[d][i].is_whale

DeliveryStep ==
    \A d \in Dashboards :
        /\ Len(inbox'[d]) > Len(inbox[d]) =>
              /\ real_time_transfers' # real_time_transfers
              /\ inbox'[d] = Append(inbox[d],
                    CHOOSE row \in real_time_transfers' \ real_time_transfers : TRUE)
        /\ (inbox[d] # <<>> /\ subscribed'[d] /\ inbox'[d] = Tail(inbox[d])
                /\ allTransfers'[d] # allTransfers[d]) =>
              /\ Head(allTransfers'[d]) = Head(inbox[d])
              /\ Head(inbox[d]).is_whale => /\ allWhaleAlerts'[d] # <<>>
                                            /\ Head(allWhaleAlerts'[d]) = Head(inbox[d])
              /\ ~Head(inbox[d]).is_whale => allWhaleAlerts'[d] = allWhaleAlerts[d]

WhaleFanOut == []FanOutComplete /\ []OnlyWhalesAlerted /\ [][DeliveryStep]_vars

\* C7 witness: both dashboards have received a whale row and a non-whale row:
\* two entries in the transfer list, the whale alone in the whale-alert list.
WhaleFanOutWitness ==
    \A d \in Dashboards :
        /\ subscribed[d]
        /\ Len(allTransfers[d]) = 2
        /\ Len(allWhaleAlerts[d]) = 1
        /\ \E i \in 1..2 : ~allTransfers[d][i].is_whale

\* C8 (SpecServe).  Across ticks and start_monitoring, get_recent_transfers
\* and get_whale_alerts requests, a row of real_time_transfers stays in it
\* unchanged, and a step that changes the table adds one row to it.
AppendOnlyStep ==
    /\ \A row \in real_time_transfers : row \in real_time_transfers'
    /\ real_time_transfers' # real_time_transfers =>
          \E row \in real_time_transfers' :
              /\ row \notin real_time_transfers
              /\ real_time_transfers' = real_time_transfers \cup {row}

AppendOnlyLog == [][AppendOnlyStep]_vars

\* C8 witness: two rows are stored and a get_recent_transfers request has
\* returned both.
AppendOnlyLogWitness ==
    /\ Cardinality(real_time_transfers) = 2
    /\ response.status = 200
    /\ Len(response.body) = 2

-----------------------------------------------------------------------------
(* Properties of the risk scoring *)

Partitioned(score, level) ==
    /\ score \in 1..10
    /\ level \in {"LOW", "MEDIUM", "HIGH"}
    /\ level = "LOW" <=> score <= 3
    /\ level = "MEDIUM" <=> (4 <= score /\ score <= 6)
    /\ level = "HIGH" <=> score >= 7

\* C9 (SpecRisk).  Every analysis analyze-wallet returns or stores has a risk
\* score that is an integer in 1..10 and a risk level that is LOW exactly for
\* a score <= 3, MEDIUM exactly for 4..6 and HIGH exactly for >= 7; so has the
\* analysis handleXRPAnalysis computes of the same history.
ScoreInRangeLevelPartitioned ==
    /\ \A i \in DOMAIN analysisResponse.riskAnalysis :
          Partitioned(analysisResponse.riskAnalysis[i].riskScore,
                      analysisResponse.riskAnalysis[i].riskLevel)
    /\ \A i \in DOMAIN wallet_risk_ratings :
          Partitioned(wallet_risk_ratings[i].riskScore, wallet_risk_ratings[i].riskLevel)
    /\ LET xrp == xrpRiskAnalysis(XRPTransactions(transactions), now)
       IN  Partitioned(xrp.riskScore, xrp.riskLevel)

\* C9 witness: a wallet of at least ten transactions has been scored 6, which
\* is MEDIUM, and on a later day 5.
ScoreInRangeWitness ==
    /\ analysisResponse.status = 200
    /\ Len(analyses) = 2
    /\ Len(transactions) >= 10
    /\ analyses[1].riskScore = 6 /\ analyses[1].riskLevel = "MEDIUM"
    /\ analyses[2].riskScore = 5

ScoreByRule(ageDays, total, failed) ==
    LET A == IF ageDays < 30 THEN 3 ELSE IF ageDays < 90 THEN 2
             ELSE IF ageDays < 365 THEN 1 ELSE 0
        V == IF total < 10 THEN 2 ELSE IF total < 50 THEN 1 ELSE 0
        F == IF total = 0 THEN 0
             ELSE IF 10 * failed > total THEN 2
             ELSE IF 20 * failed > total THEN 1 ELSE 0
        sum == 1 + A + V + F
    IN  IF sum > 10 THEN 10 ELSE sum

\* C11 (SpecRisk).  The risk score analyze-wallet returns and stores is
\* min(10, 1 + A + V + F) of the wallet age, transaction count and failed
\* count it reports, and handleXRPAnalysis computes, of the same history, the
\* same three numbers and the same score.
ScoreFollowsRule ==
    /\ \A i \in DOMAIN analysisResponse.riskAnalysis :
          LET r == analysisResponse.riskAnalysis[i]
          IN  r.riskScore =
                 ScoreByRule(r.walletAgeDays, r.totalTransactions, r.failedTransactions)
    /\ \A i \in DOMAIN wallet_risk_ratings :
          LET r == wallet_risk_ratings[i]
          IN  r.riskScore =
                 ScoreByRule(r.walletAgeDays, r.totalTransactions, r.failedTransactions)
    /\ LET evm == riskAnalysis(transactions, now)
           xrp == xrpRiskAnalysis(XRPTransactions(transactions), now)
       IN  /\ xrp.riskScore =
                 ScoreByRule(xrp.walletAgeDays, xrp.totalTransactions, xrp.failedTransactions)
           /\ ( /\ xrp.walletAgeDays = evm.walletAgeDays
                /\ xrp.totalTransactions = evm.totalTransactions
                /\ xrp.failedTransactions = evm.failedTransactions ) =>
                    xrp.riskScore = evm.riskScore

\* C11 witness: a wallet of ten transactions, one of them failed, the oldest
\* thirty days old, has been scored 1 + 2 + 1 + 1 = 5.
ScoreFollowsRuleWitness ==
    /\ analysisResponse.status = 200
    /\ \E i \in DOMAIN analysisResponse.riskAnalysis :
          LET r == analysisResponse.riskAnalysis[i]
          IN  /\ r.walletAgeDays = 30
              /\ r.totalTransactions = 10
              /\ r.failedTransactions = 1
              /\ r.riskScore = 5

-----------------------------------------------------------------------------
(* Properties of the explorer calls *)

\* The step is the explorer's answer `answer` to call c.
AnswerStep(c, answer) ==
    /\ calls[c].state = "waiting"
    /\ calls'[c] # calls[c]
    /\ calls'[c].last = answer

\* C12 (SpecAnalyze).  When the explorer answers the transaction-list call
\* with status "0" and "No transactions found", the call returns an empty
\* list at once, without another request; and the analysis of that list, the
\* balance call having returned, ends with a 200 response of
\* totalTransactions 0, walletAgeDays 0, riskScore 6 and riskLevel MEDIUM.
EmptyListStep ==
    /\ AnswerStep("txlist", "noTransactions") =>
          /\ calls'["txlist"].state = "returned"
          /\ calls'["txlist"].requests = calls["txlist"].requests
          /\ calls'["txlist"].data = <<[status |-> "1", result |-> <<>>]>>
    /\ ( /\ analyzing # ""
         /\ analyzing' = ""
         /\ calls["txlist"].last = "noTransactions"
         /\ calls["balance"].state = "returned" ) =>
            /\ analysisResponse'.status = 200
            /\ analysisResponse'.riskAnalysis =
                  <<[totalTransactions |-> 0, failedTransactions |-> 0,
                     walletAgeDays |-> 0, riskScore |-> 6, riskLevel |-> "MEDIUM"]>>

EmptyTransactionsSuccess == [][EmptyListStep]_vars

\* C12 witness: the explorer's first answer to the transaction-list call was
\* "No transactions found" and the analysis has ended with riskScore 6.
EmptyTransactionsWitness ==
    /\ analyzing = ""
    /\ calls["txlist"].last = "noTransactions"
    /\ calls["txlist"].requests = 1
    /\ calls["balance"].state = "returned"
    /\ analysisResponse.status = 200
    /\ analysisResponse.riskAnalysis[1].riskScore = 6
    /\ analysisResponse.riskAnalysis[1].riskLevel = "MEDIUM"

\* C13 (SpecAnalyze).  A fetchWithRetry call issues at most 3 requests; an
\* HTTP failure or a rate-limit message with requests left is followed by
\* another request; the call ends by returning an envelope or by throwing on
\* an error answer to its 3rd request, never without a value.
RetryBounded ==
    \A c \in Calls :
        /\ calls[c].requests <= 3
        /\ calls[c].state \in {"idle", "waiting", "returned", "threw"}
        /\ calls[c].state = "returned" =>
              /\ Len(calls[c].data) = 1
              /\ calls[c].data[1].status = "1"
        /\ calls[c].state = "threw" =>
              /\ calls[c].requests = 3
              /\ calls[c].last \in {"fetchThrows", "httpError", "rateLimit", "apiError"}

RetryStep ==
    \A c \in Calls :
        ( /\ AnswerStep(c, "httpError") \/ AnswerStep(c, "rateLimit")
          /\ calls[c].requests < 3 ) =>
            /\ calls'[c].state = "waiting"
            /\ calls'[c].requests = calls[c].requests + 1

BoundedRetry == []RetryBounded /\ [][RetryStep]_vars

\* C13 witness: one call has thrown on a rate-limit message to its 3rd
\* request, the other has returned from its 2nd.
BoundedRetryWitness ==
    \E c, d \in Calls :
        /\ calls[c].state = "threw"
        /\ calls[c].last = "rateLimit"
        /\ calls[d].state = "returned"
        /\ calls[d].requests = 2

-----------------------------------------------------------------------------
(* Properties of the balance tracking *)

\* The step is the completion of a fetchBalances call.
FetchCompletes == lastFetch' # lastFetch

\* C14 (SpecBalance), the claim as stated.  A refresh that fails while the
\* hook holds amounts of an earlier successful refresh leaves the balances of
\* every wallet as they are.
FailureKeepsBalancesStep ==
    ( /\ FetchCompletes
      /\ lastFetch'.outcome = "error"
      /\ \E w \in Wallets : balances[w] \in Amounts ) =>
        balances' = balances

FailureKeepsBalances == [][FailureKeepsBalancesStep]_vars

\* C15 (SpecBalance), the claim as stated.  No timer of a startTracking call
\* that was awaiting when stopTracking ran is armed, and while stopTracking is
\* the latest call the hook's listener is not registered with the service.
CancelledStartLeavesNothing ==
    /\ \A i \in cancelled : i \notin armed
    /\ lastCall = "stop" => listeners = {}

\* C16 (SpecBalance), the claim as stated.  The completion of a fetch that
\* was in flight when stopTracking ran changes neither balances nor
\* lastUpdate.
StaleResultDiscardedStep ==
    (FetchCompletes /\ lastFetch'.stale) =>
        /\ balances' = balances
        /\ lastUpdate' = lastUpdate

StaleResultDiscarded == [][StaleResultDiscardedStep]_vars

-----------------------------------------------------------------------------
(* Properties of the stablecoin transfers tab *)

\* A round has completed and no other has begun.
RoundDone ==
    /\ ~isLoadingTransfers
    /\ \A n \in TabNetworks : answered[n] \notin {"none", "pending"}

\* The number of transfers network n returned in the round, 0 if it failed.
Given(n) == IF answered[n] = "array" THEN Len(Returned(n)) ELSE 0

\* Entry x is the j-th transfer network n returned, under the frontend key.
IsFrom(x, n, j) ==
    /\ x.network = n
    /\ x.amount = Returned(n)[j].amount
    /\ x.timestamp = Returned(n)[j].timestamp

\* C17 (SpecAggregate).  After a round in which any networks threw or
\* returned an error, no error was raised, and the displayed list holds,
\* without repetition, min(100, total) transfers, the total being that of the
\* networks that returned their array; every entry is a transfer of such a
\* network and none is of a failed one.
PerNetworkIsolation ==
    RoundDone =>
        /\ ~errorToast
        /\ LET total == Given("ethereum") + Given("polygon")
                            + Given("avalanche") + Given("arbitrum")
           IN  Len(transfers) = IF total < 100 THEN total ELSE 100
        /\ \A i \in DOMAIN transfers :
              /\ answered[transfers[i].network] = "array"
              /\ \E j \in DOMAIN Returned(transfers[i].network) :
                    IsFrom(transfers[i], transfers[i].network, j)
              /\ \A k \in DOMAIN transfers : transfers[k] = transfers[i] => k = i

\* C17 witness: one network threw, one returned an error, and the displayed
\* list holds the transfers of the other two.
PerNetworkIsolationWitness ==
    /\ RoundDone
    /\ answered["ethereum"] = "throws"
    /\ answered["polygon"] = "error"
    /\ Len(transfers) = Given("avalanche") + Given("arbitrum")
    /\ Len(transfers) > 2

\* C18 (SpecAggregate).  The displayed list has at most 100 entries and is in
\* non-increasing order of timestamp; after a round, no transfer a network
\* returned that is not displayed is newer than a displayed one.
MostRecentKept ==
    /\ Len(transfers) <= 100
    /\ \A i \in DOMAIN transfers :
          i > 1 => transfers[i - 1].timestamp >= transfers[i].timestamp
    /\ RoundDone =>
          \A n \in TabNetworks : \A j \in 1..Given(n) :
              (\A i \in DOMAIN transfers : ~IsFrom(transfers[i], n, j)) =>
                  \A i \in DOMAIN transfers :
                      transfers[i].timestamp >= Returned(n)[j].timestamp

\* C18 witness: all four networks returned their arrays, more than 100
\* transfers in all, and 100 are displayed, the first newer than the last.
MostRecentKeptWitness ==
    /\ RoundDone
    /\ \A n \in TabNetworks : answered[n] = "array"
    /\ Given("ethereum") + Given("polygon") + Given("avalanche") + Given("arbitrum") > 100
    /\ Len(transfers) = 100
    /\ transfers[1].timestamp > transfers[100].timestamp

-----------------------------------------------------------------------------
(* Properties of the gateway *)

\* The key is missing, unknown, inactive or expired.
BadKey(apiKey) ==
    \/ Selected(apiKey) = {}
    \/ \E row \in Selected(apiKey) :
          row.expires_at # <<>> /\ row.expires_at[1] < clock

\* The key's usage of the last minute has reached its limit.
AtLimit(apiKey) ==
    \E row \in Selected(apiKey) : UsageCount(row.id) >= row.rate_limit_per_minute

\* The request is answered with this status, not handed on, and nothing is
\* invoked or logged for it.
RefusedWith(status) ==
    /\ lastReply'.status = status
    /\ handler' = handler
    /\ invoked' = invoked
    /\ api_usage' = api_usage

KeyEnforcementStep ==
    \A h \in Handlers, apiKey \in ApiKeys, countOk \in BOOLEAN :
        Receive(h, apiKey, TRUE, countOk) =>
            /\ BadKey(apiKey) => RefusedWith(401)
            /\ ~BadKey(apiKey) /\ AtLimit(apiKey) =>
                  RefusedWith(429) /\ lastReply'.requests_remaining = <<0>>

\* C19 (SpecGateway).  A request whose key is missing, unknown, inactive or
\* expired is answered 401, and a request whose key has reached its
\* per-minute limit is answered 429 with no requests remaining; in both cases
\* the downstream function is not invoked and no api_usage row is written.
\* (Stated for the requests whose key lookup the database answered.)
KeyEnforcement == [][KeyEnforcementStep]_vars

\* The number of the key's api_usage rows in the minute that begins at `from`.
LoggedIn(apiKeyId, from) ==
    BagCardinality([row \in {r \in BagToSet(api_usage) :
                                /\ r.api_key_id = apiKeyId
                                /\ r.timestamp >= from
                                /\ r.timestamp < from + Window}
                       |-> api_usage[row]])

\* C20 (SpecGateway).  For each key and every 60-second window, the requests
\* served and logged in the window never exceed the key's
\* rate_limit_per_minute, also with handlers running concurrently.  (Stated
\* for the behaviours in which every usage count was answered.)
RateLimitHeld ==
    ~uncounted =>
        \A key \in api_keys : \A row \in BagToSet(api_usage) :
            LoggedIn(key.id, row.timestamp) <= key.rate_limit_per_minute

-----------------------------------------------------------------------------
(* Further properties of the ingestion poller *)

\* C26 (Spec).  At most one polling timer is armed at any time: a
\* start_monitoring request handled while a timer is armed arms no second one.
SinglePoller == timers <= 1

\* C29 (Spec).  When a callback that ran alone, the store answering its every
\* call, has gone through a well-formed list, the table holds for every
\* transfer of the list a row with its (hash, from_address, to_address,
\* amount): what the duplicate check did not find stored has been stored.
IngestionComplete ==
    \A p \in Ticks :
        ( /\ pc[p] = "done"
          /\ todo[p] = <<>>
          /\ lastBatch # NoBatch
          /\ streak >= 1 ) =>
            (lastBatch[1] \in CleanBatches =>
                \A i \in DOMAIN lastBatch[1] :
                    Matching(real_time_transfers, lastBatch[1][i]) # {})

-----------------------------------------------------------------------------
(* Further properties of the gateway *)

\* The step on which a handler returns the response of a request that had
\* passed validation writes that request's one api_usage row.
UsageLoggedStep ==
    \A h \in Handlers :
        (handler[h].pc \in {"validated", "logging"} /\ handler'[h].pc = "idle") =>
            /\ BagCardinality(api_usage') = BagCardinality(api_usage) + 1
            /\ \E status \in {200, 500} : lastReply'.status = status

\* C28 (SpecGateway).  Every request that passes validation writes exactly
\* one api_usage row before its response is returned, whatever happens after
\* the validation.
UsageLogged == [][UsageLoggedStep]_vars

-----------------------------------------------------------------------------
(* Properties of the request handlers *)

\* The handler has responded to a request that named its wallet (and dates).
Responded ==
    /\ edgePc = "idle"
    /\ edgeRequest.fn # ""
    /\ edgeRequest.walletAddress
    /\ edgeRequest.fn = "wallet-history" => edgeRequest.dates

\* C21 (SpecEdge).  A request to analyze-wallet or wallet-history that names
\* a network outside the function's supported set is answered 400 and causes
\* no explorer call.  (Stated for the networks other than xrp.)
UnsupportedNetworkRejected ==
    ( /\ Responded
      /\ networkOrDefault(edgeRequest.network)
            \notin EdgeNetworks(edgeRequest.fn) \cup {"xrp"} ) =>
        /\ edgeResponse.status = 400
        /\ explorerRequests = 0

\* C22 (SpecEdge).  A request with network "xrp" is answered by the
\* function's XRP handler, not by the unsupported-network rejection and not
\* by the EVM explorer path.
XrpOwnPath ==
    (Responded /\ edgeRequest.network = "xrp") =>
        edgeResponse.by \in {"xrp", "xrpCatch"}

\* C23 (SpecEdge).  When the explorer answers wallet-history's list call with
\* status "0" and "No transactions found", the response is a success with an
\* empty transaction list.
HistoryEmptySuccess ==
    ( /\ Responded
      /\ edgeRequest.fn = "wallet-history"
      /\ lastAnswer = "noTransactions" ) =>
        /\ edgeResponse.status = 200
        /\ edgeResponse.transactions = <<>>

-----------------------------------------------------------------------------
(* Properties of the tracked wallets *)

\* No two wallets of the list have the same address, in lower case, and
\* network.
UniqueIn(list) ==
    \A i, j \in DOMAIN list :
        ( /\ toLowerCase(list[i].address) = toLowerCase(list[j].address)
          /\ list[i].network = list[j].network ) => i = j

\* An addWallet for a pair the list has changes nothing.
TrackedAddStep ==
    \A typed \in TypedAddresses, network \in WalletNetworks :
        ( /\ addWallet(typed, network)
          /\ exists(wallets, [address |-> typed, network |-> network]) ) =>
            UNCHANGED <<wallets, localStorage, tracked_wallets, pendingOps>>

\* C24 (SpecWallets).  After any sequence of addWallet, removeWallet and
\* refetch the tracked list holds no two wallets with the same
\* (case-insensitive address, network), and an addWallet for a pair already
\* tracked leaves the list, localStorage and the table unchanged.
TrackedWalletsUnique == []UniqueIn(wallets) /\ [][TrackedAddStep]_vars

\* C24 witness: two adds of one address, typed in different case, on two
\* networks have been stored and fetched back; the list, localStorage and
\* the table agree, and a further add of a tracked pair can be made.
TrackedWalletsWitness ==
    /\ Len(wallets) = 2
    /\ wallets[1].address = wallets[2].address
    /\ wallets[1].network # wallets[2].network
    /\ wallets = Reverse(tracked_wallets)
    /\ localStorage = <<wallets>>
    /\ pendingOps = {}
    /\ ENABLED addWallet("0xAB", "ethereum")
    /\ exists(wallets, [address |-> "0xAB", network |-> "ethereum"])

-----------------------------------------------------------------------------
(* Further properties of analyze-wallet *)

OldestTimestamp(txs) ==
    CHOOSE t \in {txs[i].timeStamp : i \in DOMAIN txs} :
        \A i \in DOMAIN txs : t <= txs[i].timeStamp

\* The whole days from the oldest transaction of the list to the time `at`.
DaysSinceOldest(txs, at) ==
    IF Len(txs) > 0 THEN (at - OldestTimestamp(txs)) \div Day ELSE 0

NewestFirst(txs) ==
    \A i, j \in DOMAIN txs : i < j => txs[i].timeStamp >= txs[j].timeStamp

\* The answered analysis has the age of the oldest transaction at the time
\* of the analysis.
AnsweredAgeIsOldest ==
    analysisResponse.riskAnalysis[1].walletAgeDays =
        DaysSinceOldest(transactions, analyses[Len(analyses)].at)

-----------------------------------------------------------------------------
(* Properties of the stablecoin transfer persistence *)

\* The number of rows of the table that hold the transfer.
StoredTimes(network, transfer) ==
    Cardinality({i \in DOMAIN stablecoin_transfers :
                    stablecoin_transfers[i] = transfersToInsert(<<transfer>>, network)[1]})

\* C30 (SpecStable).  After fetch-stablecoin-transfers has handled a
\* successful upstream response, every transfer of that response is in
\* stablecoin_transfers exactly once, also when the response overlaps an
\* earlier one.
TransfersPersisted ==
    fetchReply.upstream = "ok" =>
        \A i \in DOMAIN fetchReply.transfers :
            StoredTimes(fetchReply.network, fetchReply.transfers[i]) = 1

=============================================================================
